---- MODULE Spec2Model ----
(***************************************************************************)
(* A model of the block preconditioning and distributed linear-algebra     *)
(* subsystem of oomph-lib:                                                 *)
(*   - BandedBlockTriangularPreconditioner / ExactDGPBlockPreconditioner   *)
(*     (general_purpose_space_time_block_preconditioner.h),                *)
(*   - the DOF classification of the Fourier-decomposed elasticity         *)
(*     elements and the block structure built from it,                     *)
(*   - DoubleMultiVector (double_multi_vector.h).                          *)
(* Each component has its own specification (SpecPrec, SpecBlock, SpecMV)  *)
(* over the variables of that component; the other variables stay put.     *)
(***************************************************************************)
EXTENDS Integers, Sequences, FiniteSets, TLC

VARIABLES
  kind,      \* the class of the preconditioner object: "banded" or "exact"
  prec,      \* its fields
  Off_diagonal_matrix_vector_products, \* DenseMatrix<MatrixVectorProduct*>
  base,      \* its GeneralPurposeBlockPreconditioner part
  live_ops,  \* the MatrixVectorProduct objects allocated and not yet deleted
  double_free, \* TRUE once delete has been applied to a deleted operator
  n_setup,   \* number of setup() calls so far (names the operators of a setup)
  fresh,     \* no configuration setter has been called since construction
  alive,     \* the preconditioner has not been destroyed
  sys,       \* the linear system the preconditioner is set up for
  ret        \* the last operation and what it returned

prec_vars == <<kind, prec, Off_diagonal_matrix_vector_products, base, live_ops,
               double_free, n_setup, fresh, alive, sys, ret>>

VARIABLES
  pinned,          \* per node of the mesh, the nodal values that are pinned
  block_setup,     \* Null, or the DOF -> block type map block_setup() built
  global_vector,   \* the global vector handed to get_block_vectors
  block_vectors,   \* Null, or the block vectors extracted from it
  returned         \* Null, or the global vector reassembled from the blocks

blk_vars == <<pinned, block_setup, global_vector, block_vectors, returned>>

VARIABLES
  mv,              \* the fields of the DoubleMultiVector objects
  lookup_arrays,   \* every double*[] array allocated so far (by new double*[n])
  storage_blocks,  \* every double[] block allocated so far (by new double[n])
  mv_fault,        \* "none", or the undefined behaviour the program ran into
  Internal_doublevector, \* per object, the data pointers of its DoubleVectors
  checked,         \* the checks compiled in: PARANOID, RANGE_CHECKING
  calls,           \* arithmetic calls made so far in the run
  mv_ret           \* the last DoubleMultiVector operation and its arguments

heap_vars == <<mv, lookup_arrays, storage_blocks, mv_fault,
              Internal_doublevector, checked, calls, mv_ret>>

VARIABLES
  node,            \* per process: distribution and local values of a and b
  proc,            \* per process: the call it is in, its position, its locals
  script           \* the calls made so far; every process makes them in order

col_vars == <<node, proc, script>>

mv_vars == <<heap_vars, col_vars>>

VARIABLES
  solver,          \* the fields of the MumpsSolver
  mumps,           \* the instance of the external solver and what it has done
  matrices,        \* the caller's matrices
  factorised,      \* the matrix the stored factorisation was computed from
  ms_misuse,       \* "none", or the rule of the solver's protocol a call broke
  ms_ret           \* the last call on the solver and what it returned

ms_vars == <<solver, mumps, matrices, factorised, ms_misuse, ms_ret>>

VARIABLES
  mesh,            \* the element counts of the SimpleCubicMesh
  mesh_ret         \* the last call on the mesh and what it returned

mesh_vars == <<mesh, mesh_ret>>

ext_vars == <<ms_vars, mesh_vars>>

vars == <<prec_vars, blk_vars, mv_vars, ext_vars>>

(***************************************************************************)
(* Bounds of the model.                                                    *)
(***************************************************************************)
\* Largest number of block types of a Jacobian handed to setup()
MaxBlock == 4
\* Largest number of setup() calls on one preconditioner
MaxSetup == 2
\* Number of degrees of freedom of the linear systems handed to the exact
\* preconditioner
SysSize == 4
\* Number of elements of the (one-dimensional) mesh
MaxElement == 2
\* Number of nodes of an element
Nnode == 2
\* Number of block types a caller-supplied classification uses
MaxType == 3
\* Largest number of vectors of a multivector
MaxVec == 2
\* Largest number of local rows of a distribution
MaxRow == 2
\* Largest entry a caller writes into a vector
MaxVal == 1
\* Largest number of double[] blocks allocated in a run
MaxStorage == 2
\* Largest number of double*[] lookup arrays allocated in a run
MaxLookup == 3
\* Largest magnitude of an entry of a vector
MaxMagnitude == 8
\* Bits of the significand of a double in the model (53 in the program)
MantissaBits == 2
\* The square roots of the model are rounded to multiples of 1 / SqrtScale
SqrtScale == 4
\* Largest number of arithmetic calls (+=, -=, *=, dot, norm) in a run
MaxCalls == 3
\* Largest number of processes of the communicator
MaxProc == 2
\* Largest number of global rows of a distributed multivector
MaxGlobalRow == 2
\* Largest number of collective calls each process makes in a run
MaxScript == 2

\* Order of the matrices handed to the MumpsSolver
MumpsOrder == 2
\* Largest number of initialisations of the external solver in a run
MaxInitialise == 2
\* Largest number of elements of the SimpleCubicMesh in one direction
MaxCount == 5

\* The null pointer
Null == <<>>

Blocks(n) == 0 .. (n - 1)
Grid(n) == Blocks(n) \X Blocks(n)
Abs(x) == IF x < 0 THEN 0 - x ELSE x

\* The block bandwidths a caller passes to set_block_bandwidth
BandwidthChoices == (0 - 1) .. MaxBlock

(***************************************************************************)
(* BandedBlockTriangularPreconditioner: constructor and configuration.     *)
(***************************************************************************)
\* A constructor that starts block diagonal instead of "every block"
BandedConstructorBlockDiagonal ==
  [Upper_triangular |-> TRUE, Block_bandwidth |-> 0,
   Preconditioner_has_been_setup |-> FALSE,
   Compute_memory_statistics |-> FALSE, Memory_usage_in_bytes |-> 0]

BandedBlockTriangularPreconditioner ==
  [Upper_triangular |-> TRUE, Block_bandwidth |-> 0 - 1,
   Preconditioner_has_been_setup |-> FALSE,
   Compute_memory_statistics |-> FALSE, Memory_usage_in_bytes |-> 0]

set_block_bandwidth(p, block_bandwidth) ==
  [p EXCEPT !.Block_bandwidth = block_bandwidth]

upper_triangular(p) == [p EXCEPT !.Upper_triangular = TRUE]

lower_triangular(p) == [p EXCEPT !.Upper_triangular = FALSE]

Banded_enable_doc_memory_usage(p) ==
  [p EXCEPT !.Compute_memory_statistics = TRUE]

Banded_disable_doc_memory_usage(p) ==
  [p EXCEPT !.Compute_memory_statistics = FALSE]

(***************************************************************************)
(* ExactDGPBlockPreconditioner: constructor and configuration.             *)
(***************************************************************************)
ExactDGPBlockPreconditioner ==
  [Preconditioner_has_been_setup |-> FALSE,
   Compute_memory_statistics |-> FALSE, Memory_usage_in_bytes |-> 0]

Exact_enable_doc_memory_usage(p) ==
  [p EXCEPT !.Compute_memory_statistics = TRUE]

Exact_disable_doc_memory_usage(p) ==
  [p EXCEPT !.Compute_memory_statistics = FALSE]

\* The empty DenseMatrix of a freshly constructed preconditioner
EmptyDenseMatrix == [n |-> 0, slot |-> [ij \in Grid(0) |-> Null]]

\* The base class part: the number of block types found by block_setup() and
\* the number of subsidiary (diagonal block) preconditioners held
EmptyBase == [nblock |-> 0, nsub |-> 0, lu |-> Null]

(***************************************************************************)
(* Off-diagonal operators: allocation in setup(), release in               *)
(* clean_up_memory().                                                      *)
(***************************************************************************)
\* The operators stored in a DenseMatrix of operator pointers
Stored(m) == {m.slot[ij] : ij \in Grid(m.n)} \ {Null}

\* Which off-diagonal positions setup() populates: the strict triangle of the
\* orientation, cut to the band when the bandwidth is not negative
Populated(n, upper, b) ==
  {ij \in Grid(n) :
     /\ IF upper THEN ij[2] > ij[1] ELSE ij[2] < ij[1]
     /\ (b >= 0 => Abs(ij[2] - ij[1]) <= b)}

\* clean_up_memory() that deletes the operators and keeps the stale pointers
Banded_delete_keep_pointers(m, live, df) ==
  [mvp |-> m,
   live |-> live \ Stored(m),
   double_free |-> df \/ (Stored(m) \ live) # {}]

\* The loop of clean_up_memory(): delete every slot, then null it. Deleting a
\* null pointer does nothing; deleting an operator that is no longer allocated
\* is a double free.
Banded_delete_operators(m, live, df) ==
  [mvp |-> [m EXCEPT !.slot = [ij \in Grid(m.n) |-> Null]],
   live |-> live \ Stored(m),
   double_free |-> df \/ (Stored(m) \ live) # {}]

\* GeneralPurposeBlockPreconditioner<MATRIX>::clean_up_memory(): releases the
\* subsidiary preconditioners and the block structure. The flags of the derived
\* classes are private to them: the base class cannot reach them.
Base_clean_up_memory(gp) == EmptyBase

\* The rows of the grid built before a setup() stops: all n of them when it
\* succeeds, the first k when it fails in row k
Setup_slots(n, rows, upper, b, gen) ==
  [ij \in Grid(n) |->
     IF ij[1] < rows /\ ij \in Populated(n, upper, b)
       THEN <<gen, ij[1], ij[2]>> ELSE Null]

\* The memory statistic of a setup: one unit per block held
Banded_memory(n, upper, b) == n + Cardinality(Populated(n, upper, b))

(***************************************************************************)
(* get_memory_usage_in_bytes()                                            *)
(***************************************************************************)
\* A query that forgets to look at Compute_memory_statistics
Banded_get_memory_usage_unguarded(p) ==
  IF p.Preconditioner_has_been_setup
    THEN [value |-> p.Memory_usage_in_bytes, warned |-> FALSE]
    ELSE [value |-> 0, warned |-> TRUE]

Banded_get_memory_usage_in_bytes(p) ==
  IF p.Preconditioner_has_been_setup
    THEN IF p.Compute_memory_statistics
           THEN [value |-> p.Memory_usage_in_bytes, warned |-> FALSE]
           ELSE [value |-> 0, warned |-> TRUE]
    ELSE [value |-> 0, warned |-> TRUE]

(***************************************************************************)
(* preconditioner_solve(r, z) of the banded preconditioner: the block      *)
(* substitution. acc.order is the sequence of blocks solved so far and     *)
(* acc.used[i] the blocks whose z-segment corrected the residual of i.     *)
(***************************************************************************)
\* A substitution that always runs from the first block to the last
Banded_solve_block_ascending(k, n, upper) == k

\* The block handled in step k (k = 0, 1, ...) of the substitution
Banded_solve_block(k, n, upper) == IF upper THEN n - 1 - k ELSE k

RECURSIVE Banded_solve_loop(_, _, _, _, _)
Banded_solve_loop(k, n, upper, slot, acc) ==
  IF k >= n THEN acc
  ELSE LET i == Banded_solve_block(k, n, upper)
           solved == {acc.order[m] : m \in 1 .. Len(acc.order)}
           u == {j \in solved : slot[<<i, j>>] # Null}
       IN  Banded_solve_loop(k + 1, n, upper, slot,
             [order |-> Append(acc.order, i),
              used |-> [x \in DOMAIN acc.used \cup {i} |->
                          IF x = i THEN u ELSE acc.used[x]]])

\* Whether the resources the substitution needs are all there
Banded_ready(gp, m) ==
  gp.nblock >= 1 /\ gp.nsub = gp.nblock /\ m.n = gp.nblock

(***************************************************************************)
(* The block structure: the map from a global degree of freedom to its     *)
(* block and its index within the block, for a labelling of the degrees of *)
(* freedom 0 .. n-1 by block type.                                         *)
(***************************************************************************)
Block_number(label, g) == label[g]

Index_in_block(label, g) ==
  Cardinality({h \in DOMAIN label : h < g /\ label[h] = label[g]})

Block_dimension(label, b) == Cardinality({h \in DOMAIN label : label[h] = b})

\* Where block b starts when the blocks are laid out one after the other
Block_offset(label, b) ==
  Cardinality({h \in DOMAIN label : label[h] < b})

\* The position of DOF g in the block-ordered (concatenated) system
Block_position(label, g) ==
  Block_offset(label, Block_number(label, g)) + Index_in_block(label, g)

(***************************************************************************)
(* Exact integer linear algebra for the direct solve of a block.           *)
(***************************************************************************)
RECURSIVE SumFun(_, _)
SumFun(f, S) ==
  IF S = {} THEN 0
  ELSE LET c == CHOOSE c \in S : TRUE IN f[c] + SumFun(f, S \ {c})

MatVec(A, n, x) ==
  [i \in Blocks(n) |-> SumFun([j \in Blocks(n) |-> A[<<i, j>>] * x[j]], Blocks(n))]

\* Determinant of rows r .. n-1 and the columns cols, by expansion along row r
RECURSIVE DetRec(_, _, _, _)
DetRec(M, n, r, cols) ==
  IF r >= n THEN 1
  ELSE SumFun([c \in cols |->
                 (IF Cardinality({d \in cols : d < c}) % 2 = 0 THEN 1 ELSE 0 - 1)
                 * (IF M[<<r, c>>] = 0 THEN 0
                    ELSE M[<<r, c>>] * DetRec(M, n, r + 1, cols \ {c}))],
              cols)

Det(M, n) == DetRec(M, n, 0, Blocks(n))

\* The exact solution of M y = r as the fractions num[i] / den (Cramer's rule)
Exact_direct_solve(M, n, r) ==
  [den |-> Det(M, n),
   num |-> [i \in Blocks(n) |->
              Det([ij \in Grid(n) |-> IF ij[2] = i THEN r[ij[1]] ELSE M[ij]], n)]]

(***************************************************************************)
(* ExactDGPBlockPreconditioner: setup() and preconditioner_solve(r, z).    *)
(***************************************************************************)
\* The DOF that sits at position q of the block-ordered system
Dof_at(label, q) ==
  IF \E g \in DOMAIN label : Block_position(label, g) = q
    THEN CHOOSE g \in DOMAIN label : Block_position(label, g) = q
    ELSE 0

\* setup(): the blocks of the Jacobian are concatenated into one block-ordered
\* matrix, which is handed to one exact (direct) subsidiary solver
Exact_setup_base(sy) ==
  [nblock |-> Cardinality({sy.label[g] : g \in Blocks(sy.n)}),
   nsub |-> 1,
   lu |-> [ij \in Grid(sy.n) |->
             sy.A[<<Dof_at(sy.label, ij[1]), Dof_at(sy.label, ij[2])>>]]]

\* The block-ordered copy of a global vector
Exact_get_block_ordered(label, n, r) ==
  [q \in Blocks(n) |-> r[Dof_at(label, q)]]

\* A copy back into the global vector that keeps the block order
Exact_return_unpermuted(label, n, zb) == zb

\* The copy of a block-ordered vector back into the global vector
Exact_return_block_ordered(label, n, zb) ==
  [g \in Blocks(n) |-> zb[Block_position(label, g)]]

Exact_solve(sy, gp, r) ==
  LET s == Exact_direct_solve(gp.lu, sy.n,
                              Exact_get_block_ordered(sy.label, sy.n, r))
  IN  [den |-> s.den,
       num |-> Exact_return_block_ordered(sy.label, sy.n, s.num)]

Exact_ready(gp) == gp.nsub = 1 /\ gp.lu # Null

\* A query that forgets to look at Preconditioner_has_been_setup
Exact_get_memory_usage_unguarded(p) ==
  IF p.Compute_memory_statistics
    THEN [value |-> p.Memory_usage_in_bytes, warned |-> FALSE]
    ELSE [value |-> 0, warned |-> TRUE]

Exact_get_memory_usage_in_bytes(p) ==
  IF p.Preconditioner_has_been_setup
    THEN IF p.Compute_memory_statistics
           THEN [value |-> p.Memory_usage_in_bytes, warned |-> FALSE]
           ELSE [value |-> 0, warned |-> TRUE]
    ELSE [value |-> 0, warned |-> TRUE]

\* Whether preconditioner_solve starts at all
Solve_precondition(p) == p.Preconditioner_has_been_setup

\* What a solve through released operators or solvers can do
UndefinedSolve ==
  {[op |-> "preconditioner_solve", status |-> "crash"],
   [op |-> "preconditioner_solve", status |-> "garbage"]}

(***************************************************************************)
(* The linear systems.                                                     *)
(***************************************************************************)
TriDiag(n) ==
  [ij \in Grid(n) |->
     IF ij[1] = ij[2] THEN 2 ELSE IF Abs(ij[1] - ij[2]) = 1 THEN 0 - 1 ELSE 0]

DiagPlusOnes(n) == [ij \in Grid(n) |-> IF ij[1] = ij[2] THEN 3 ELSE 1]

Rhs(sy) == MatVec(sy.A, sy.n, sy.x)

DefaultSys ==
  [n |-> SysSize, A |-> TriDiag(SysSize),
   label |-> [g \in Blocks(SysSize) |-> g % 2],
   x |-> [g \in Blocks(SysSize) |-> 1]]

SysChoices ==
  [n : {SysSize}, A : {TriDiag(SysSize), DiagPlusOnes(SysSize)},
   label : [Blocks(SysSize) -> {0, 1}],
   x : [Blocks(SysSize) -> {0, 1}]]

(***************************************************************************)
(* The operations of the banded preconditioner.                            *)
(***************************************************************************)
Void(name) == [op |-> name]

BandedLive == kind = "banded" /\ alive

BandedSetBlockBandwidth ==
  /\ BandedLive
  /\ \E b \in BandwidthChoices : prec' = set_block_bandwidth(prec, b)
  /\ fresh' = FALSE
  /\ ret' = Void("configure")
  /\ UNCHANGED <<blk_vars, mv_vars, ext_vars>>
  /\ UNCHANGED <<kind, Off_diagonal_matrix_vector_products, base, live_ops,
                 double_free, n_setup, alive, sys>>

BandedUpperTriangular ==
  /\ BandedLive
  /\ prec' = upper_triangular(prec)
  /\ fresh' = FALSE
  /\ ret' = Void("configure")
  /\ UNCHANGED <<blk_vars, mv_vars, ext_vars>>
  /\ UNCHANGED <<kind, Off_diagonal_matrix_vector_products, base, live_ops,
                 double_free, n_setup, alive, sys>>

BandedLowerTriangular ==
  /\ BandedLive
  /\ prec' = lower_triangular(prec)
  /\ fresh' = FALSE
  /\ ret' = Void("configure")
  /\ UNCHANGED <<blk_vars, mv_vars, ext_vars>>
  /\ UNCHANGED <<kind, Off_diagonal_matrix_vector_products, base, live_ops,
                 double_free, n_setup, alive, sys>>

BandedEnableDoc ==
  /\ BandedLive
  /\ prec' = Banded_enable_doc_memory_usage(prec)
  /\ ret' = Void("doc_memory_usage")
  /\ UNCHANGED <<blk_vars, mv_vars, ext_vars>>
  /\ UNCHANGED <<kind, Off_diagonal_matrix_vector_products, base, live_ops,
                 double_free, n_setup, fresh, alive, sys>>

BandedDisableDoc ==
  /\ BandedLive
  /\ prec' = Banded_disable_doc_memory_usage(prec)
  /\ ret' = Void("doc_memory_usage")
  /\ UNCHANGED <<blk_vars, mv_vars, ext_vars>>
  /\ UNCHANGED <<kind, Off_diagonal_matrix_vector_products, base, live_ops,
                 double_free, n_setup, fresh, alive, sys>>

\* clean_up_memory(): the operators, then the base class
BandedCleanUpMemory ==
  /\ BandedLive
  /\ LET d == Banded_delete_operators(Off_diagonal_matrix_vector_products,
                                      live_ops, double_free)
     IN  /\ Off_diagonal_matrix_vector_products' = d.mvp
         /\ live_ops' = d.live
         /\ double_free' = d.double_free
  /\ base' = Base_clean_up_memory(base)
  /\ ret' = Void("clean_up_memory")
  /\ UNCHANGED <<blk_vars, mv_vars, ext_vars>>
  /\ UNCHANGED <<kind, prec, n_setup, fresh, alive, sys>>

\* ~BandedBlockTriangularPreconditioner(): clean_up_memory(), and the object
\* is gone
BandedDestroy ==
  /\ BandedLive
  /\ LET d == Banded_delete_operators(Off_diagonal_matrix_vector_products,
                                      live_ops, double_free)
     IN  /\ Off_diagonal_matrix_vector_products' = d.mvp
         /\ live_ops' = d.live
         /\ double_free' = d.double_free
  /\ base' = Base_clean_up_memory(base)
  /\ alive' = FALSE
  /\ ret' = Void("destroy")
  /\ UNCHANGED <<blk_vars, mv_vars, ext_vars>>
  /\ UNCHANGED <<kind, prec, n_setup, fresh, sys>>

\* setup() on a Jacobian with n block types. rows = n: it runs to its end;
\* rows < n: it fails while building row `rows`, after the rows before it.
Banded_setup(n, rows) ==
  /\ BandedLive
  /\ n_setup < MaxSetup
  /\ n_setup' = n_setup + 1
  /\ LET d == Banded_delete_operators(Off_diagonal_matrix_vector_products,
                                      live_ops, double_free)
         slots == Setup_slots(n, rows, prec.Upper_triangular,
                              prec.Block_bandwidth, n_setup + 1)
     IN  /\ Off_diagonal_matrix_vector_products' = [n |-> n, slot |-> slots]
         /\ live_ops' = d.live \cup ({slots[ij] : ij \in Grid(n)} \ {Null})
         /\ double_free' = d.double_free
  /\ base' = [nblock |-> n, nsub |-> rows, lu |-> Null]
  /\ prec' = IF rows < n THEN prec
             ELSE [prec EXCEPT
                     !.Preconditioner_has_been_setup = TRUE,
                     !.Memory_usage_in_bytes =
                        IF prec.Compute_memory_statistics
                          THEN Banded_memory(n, prec.Upper_triangular,
                                             prec.Block_bandwidth)
                          ELSE @]
  /\ ret' = Void(IF rows < n THEN "setup_failed" ELSE "setup")
  /\ UNCHANGED <<blk_vars, mv_vars, ext_vars>>
  /\ UNCHANGED <<kind, fresh, alive, sys>>

BandedSetup == \E n \in 1 .. MaxBlock : Banded_setup(n, n)

BandedSetupFails ==
  \E n \in 1 .. MaxBlock : \E rows \in 0 .. (n - 1) : Banded_setup(n, rows)

BandedPreconditionerSolve ==
  /\ BandedLive
  /\ IF ~Solve_precondition(prec)
       THEN ret' = [op |-> "preconditioner_solve", status |-> "error"]
       ELSE IF Banded_ready(base, Off_diagonal_matrix_vector_products)
         THEN ret' = [op |-> "preconditioner_solve", status |-> "ok",
                      trace |-> Banded_solve_loop(0, base.nblock,
                                  prec.Upper_triangular,
                                  Off_diagonal_matrix_vector_products.slot,
                                  [order |-> <<>>, used |-> <<>>])]
         ELSE ret' \in UndefinedSolve
  /\ UNCHANGED <<blk_vars, mv_vars, ext_vars>>
  /\ UNCHANGED <<kind, prec, Off_diagonal_matrix_vector_products, base,
                 live_ops, double_free, n_setup, fresh, alive, sys>>

BandedGetMemoryUsage ==
  /\ BandedLive
  /\ ret' = [op |-> "get_memory_usage_in_bytes",
             result |-> Banded_get_memory_usage_in_bytes(prec)]
  /\ UNCHANGED <<blk_vars, mv_vars, ext_vars>>
  /\ UNCHANGED <<kind, prec, Off_diagonal_matrix_vector_products, base,
                 live_ops, double_free, n_setup, fresh, alive, sys>>

NextBanded ==
  \/ BandedSetBlockBandwidth
  \/ BandedUpperTriangular
  \/ BandedLowerTriangular
  \/ BandedEnableDoc
  \/ BandedDisableDoc
  \/ BandedSetup
  \/ BandedSetupFails
  \/ BandedCleanUpMemory
  \/ BandedPreconditionerSolve
  \/ BandedGetMemoryUsage
  \/ BandedDestroy

(***************************************************************************)
(* The operations of the exact preconditioner.                             *)
(***************************************************************************)
ExactLive == kind = "exact" /\ alive

ExactEnableDoc ==
  /\ ExactLive
  /\ prec' = Exact_enable_doc_memory_usage(prec)
  /\ ret' = Void("doc_memory_usage")
  /\ UNCHANGED <<blk_vars, mv_vars, ext_vars>>
  /\ UNCHANGED <<kind, Off_diagonal_matrix_vector_products, base, live_ops,
                 double_free, n_setup, fresh, alive, sys>>

ExactDisableDoc ==
  /\ ExactLive
  /\ prec' = Exact_disable_doc_memory_usage(prec)
  /\ ret' = Void("doc_memory_usage")
  /\ UNCHANGED <<blk_vars, mv_vars, ext_vars>>
  /\ UNCHANGED <<kind, Off_diagonal_matrix_vector_products, base, live_ops,
                 double_free, n_setup, fresh, alive, sys>>

ExactCleanUpMemory ==
  /\ ExactLive
  /\ base' = Base_clean_up_memory(base)
  /\ ret' = Void("clean_up_memory")
  /\ UNCHANGED <<blk_vars, mv_vars, ext_vars>>
  /\ UNCHANGED <<kind, prec, Off_diagonal_matrix_vector_products, live_ops,
                 double_free, n_setup, fresh, alive, sys>>

ExactDestroy ==
  /\ ExactLive
  /\ base' = Base_clean_up_memory(base)
  /\ alive' = FALSE
  /\ ret' = Void("destroy")
  /\ UNCHANGED <<blk_vars, mv_vars, ext_vars>>
  /\ UNCHANGED <<kind, prec, Off_diagonal_matrix_vector_products, live_ops,
                 double_free, n_setup, fresh, sys>>

ExactSetup ==
  /\ ExactLive
  /\ base' = Exact_setup_base(sys)
  /\ prec' = [prec EXCEPT
                !.Preconditioner_has_been_setup = TRUE,
                !.Memory_usage_in_bytes =
                   IF prec.Compute_memory_statistics THEN sys.n * sys.n ELSE @]
  /\ ret' = Void("setup")
  /\ UNCHANGED <<blk_vars, mv_vars, ext_vars>>
  /\ UNCHANGED <<kind, Off_diagonal_matrix_vector_products, live_ops,
                 double_free, n_setup, fresh, alive, sys>>

\* setup() that fails before the subsidiary solver exists
ExactSetupFails ==
  /\ ExactLive
  /\ base' = Base_clean_up_memory(base)
  /\ ret' = Void("setup_failed")
  /\ UNCHANGED <<blk_vars, mv_vars, ext_vars>>
  /\ UNCHANGED <<kind, prec, Off_diagonal_matrix_vector_products, live_ops,
                 double_free, n_setup, fresh, alive, sys>>

\* preconditioner_solve(r, z) with r the right-hand side of the system
ExactPreconditionerSolve ==
  /\ ExactLive
  /\ IF ~Solve_precondition(prec)
       THEN ret' = [op |-> "preconditioner_solve", status |-> "error"]
       ELSE IF Exact_ready(base)
         THEN ret' = [op |-> "preconditioner_solve", status |-> "ok",
                      z |-> Exact_solve(sys, base, Rhs(sys))]
         ELSE ret' \in UndefinedSolve
  /\ UNCHANGED <<blk_vars, mv_vars, ext_vars>>
  /\ UNCHANGED <<kind, prec, Off_diagonal_matrix_vector_products, base,
                 live_ops, double_free, n_setup, fresh, alive, sys>>

ExactGetMemoryUsage ==
  /\ ExactLive
  /\ ret' = [op |-> "get_memory_usage_in_bytes",
             result |-> Exact_get_memory_usage_in_bytes(prec)]
  /\ UNCHANGED <<blk_vars, mv_vars, ext_vars>>
  /\ UNCHANGED <<kind, prec, Off_diagonal_matrix_vector_products, base,
                 live_ops, double_free, n_setup, fresh, alive, sys>>

NextExact ==
  \/ ExactEnableDoc
  \/ ExactDisableDoc
  \/ ExactSetup
  \/ ExactSetupFails
  \/ ExactCleanUpMemory
  \/ ExactPreconditionerSolve
  \/ ExactGetMemoryUsage
  \/ ExactDestroy

(***************************************************************************)
(* Properties of the preconditioners.                                      *)
(***************************************************************************)
\* The positions of the operator table that hold an operator
PopulatedSlots ==
  {ij \in Grid(Off_diagonal_matrix_vector_products.n) :
     Off_diagonal_matrix_vector_products.slot[ij] # Null}

\* The state the lifecycle calls SetUp: everything a solve needs is there
InSetUpState ==
  IF kind = "banded"
    THEN Banded_ready(base, Off_diagonal_matrix_vector_products)
    ELSE Exact_ready(base)

\* C1: right after a setup() of the banded preconditioner on an n x n block
\* grid, the populated off-diagonal positions are exactly the strict triangle
\* of the orientation, cut to |col - row| <= Block_bandwidth when the bandwidth
\* is not negative; on a 4 x 4 upper-triangular grid bandwidth 1 gives
\* (0,1),(1,2),(2,3), bandwidth -1 all six upper positions and bandwidth 0
\* none; and a preconditioner whose configuration was never touched populates
\* the full upper triangle. Every populated slot holds an allocated operator.
C1_PopulatedBlockPolicy ==
  (kind = "banded" /\ ret.op = "setup") =>
    LET n == Off_diagonal_matrix_vector_products.n
        b == prec.Block_bandwidth
        up == prec.Upper_triangular
        triangle == {ij \in Grid(n) :
                       IF up THEN ij[2] > ij[1] ELSE ij[2] < ij[1]}
        band == {ij \in Grid(n) : Abs(ij[2] - ij[1]) <= b}
    IN  /\ n = base.nblock
        /\ PopulatedSlots = IF b >= 0 THEN triangle \cap band ELSE triangle
        /\ (n = 4 /\ up /\ b = 1) =>
              PopulatedSlots = {<<0, 1>>, <<1, 2>>, <<2, 3>>}
        /\ (n = 4 /\ up /\ b = 0 - 1) =>
              PopulatedSlots = {<<0, 1>>, <<0, 2>>, <<0, 3>>,
                                <<1, 2>>, <<1, 3>>, <<2, 3>>}
        /\ (n = 4 /\ up /\ b = 0) => PopulatedSlots = {}
        /\ fresh => PopulatedSlots = {ij \in Grid(n) : ij[2] > ij[1]}
        /\ \A ij \in PopulatedSlots :
              Off_diagonal_matrix_vector_products.slot[ij] \in live_ops

C1_Witness ==
  /\ kind = "banded" /\ ret.op = "setup"
  /\ Off_diagonal_matrix_vector_products.n = 4
  /\ prec.Upper_triangular /\ prec.Block_bandwidth = 1
  /\ PopulatedSlots = {<<0, 1>>, <<1, 2>>, <<2, 3>>}

\* C2: a successful preconditioner_solve of the banded preconditioner handles
\* the blocks in ascending row order when lower triangular and in descending
\* row order when upper triangular, solves every block exactly once, and
\* corrects the residual of a block only with z-segments of blocks solved
\* earlier in the same call, each through a populated off-diagonal operator.
C2_BlockSubstitutionOrder ==
  (kind = "banded" /\ ret.op = "preconditioner_solve" /\ ret.status = "ok") =>
    LET n == base.nblock
        t == ret.trace
    IN  /\ Len(t.order) = n
        /\ \A k \in 1 .. n :
              t.order[k] = IF prec.Upper_triangular THEN n - k ELSE k - 1
        /\ \A i \in Blocks(n) :
              Cardinality({k \in 1 .. n : t.order[k] = i}) = 1
        /\ \A k \in 1 .. n :
              LET i == t.order[k]
              IN  /\ t.used[i] \subseteq {t.order[m] : m \in 1 .. (k - 1)}
                  /\ \A j \in t.used[i] :
                        Off_diagonal_matrix_vector_products.slot[<<i, j>>] # Null

C2_Witness ==
  /\ kind = "banded" /\ ret.op = "preconditioner_solve" /\ ret.status = "ok"
  /\ base.nblock = 4 /\ ~prec.Upper_triangular
  /\ ret.trace.order = <<0, 1, 2, 3>>
  /\ ret.trace.used[3] = {2} /\ ret.trace.used[0] = {}

\* C3: preconditioner_solve succeeds only in the SetUp state: on an object
\* that was never set up, or after clean_up_memory(), it fails (with an error,
\* or at worst by crashing) instead of handing back a result.
C3_SolveFailsUnlessSetUp ==
  (ret.op = "preconditioner_solve" /\ ~InSetUpState) =>
    ret.status \in {"error", "crash"}

\* C4: right after clean_up_memory() (or the destructor) the preconditioner is
\* Unconfigured again: Preconditioner_has_been_setup is false.
C4_CleanUpResetsFlag ==
  ret.op \in {"clean_up_memory", "destroy"} =>
    ~prec.Preconditioner_has_been_setup

\* C5: clean_up_memory() of the banded preconditioner deletes every stored
\* off-diagonal operator and leaves every slot null, at any point of the
\* lifecycle (before a setup, after a failed one, repeatedly, and before the
\* destructor); no operator is ever deleted twice, and a clean_up_memory()
\* right after another changes nothing.
C5_CleanUpState ==
  kind = "banded" =>
    /\ ~double_free
    /\ ret.op \in {"clean_up_memory", "destroy"} =>
          /\ PopulatedSlots = {}
          /\ live_ops = {}
          /\ base = EmptyBase

\* C5, over whole behaviours: the state part above always holds, and a
\* clean_up_memory() or destructor that follows a clean_up_memory() changes
\* neither the operator table nor the set of allocated operators.
C5_CleanUpMemorySafe ==
  /\ []C5_CleanUpState
  /\ [][(kind = "banded" /\ ret.op = "clean_up_memory"
         /\ ret'.op \in {"clean_up_memory", "destroy"})
        => UNCHANGED <<prec, Off_diagonal_matrix_vector_products, base,
                       live_ops, double_free>>]_vars

C5_Witness ==
  /\ kind = "banded" /\ ret.op = "clean_up_memory"
  /\ Off_diagonal_matrix_vector_products.n = 4
  /\ n_setup = MaxSetup
  /\ base = EmptyBase /\ live_ops = {} /\ PopulatedSlots = {}
  /\ prec.Preconditioner_has_been_setup /\ fresh

\* C6: get_memory_usage_in_bytes() of either variant returns 0 with a warning
\* when the preconditioner has not been set up or the statistics are not
\* enabled, returns the stored Memory_usage_in_bytes without a warning
\* otherwise, and changes nothing of the preconditioner.
C6_QueryResult ==
  ret.op = "get_memory_usage_in_bytes" =>
    IF prec.Preconditioner_has_been_setup /\ prec.Compute_memory_statistics
      THEN ret.result = [value |-> prec.Memory_usage_in_bytes, warned |-> FALSE]
      ELSE ret.result = [value |-> 0, warned |-> TRUE]

\* C6, over whole behaviours: the result above is what every query returns,
\* and no step that is a query changes the preconditioner.
C6_MemoryUsageQuery ==
  /\ []C6_QueryResult
  /\ [][ret'.op = "get_memory_usage_in_bytes"
        => UNCHANGED <<kind, prec, Off_diagonal_matrix_vector_products, base,
                       live_ops, double_free, alive>>]_vars

C6_Witness ==
  /\ ret.op = "get_memory_usage_in_bytes"
  /\ prec.Preconditioner_has_been_setup
  /\ ~prec.Compute_memory_statistics
  /\ prec.Memory_usage_in_bytes > 0
  /\ ret.result = [value |-> 0, warned |-> TRUE]

NValue == 6

Elements == 0 .. (MaxElement - 1)
Nodes == 0 .. (MaxElement + Nnode - 2)
\* The global node behind local node l of element e
Element_node(e, l) == e + l

\* The global equation number of value i at global node n: the free values are
\* numbered node by node; a pinned value has none (-1)
Global_eqn(pin, n, i) ==
  IF i \in pin[n] THEN 0 - 1
  ELSE Cardinality({mj \in Nodes \X (0 .. (NValue - 1)) :
                      /\ mj[2] \notin pin[mj[1]]
                      /\ (mj[1] < n \/ (mj[1] = n /\ mj[2] < i))})

Ndof(pin) ==
  Cardinality({mj \in Nodes \X (0 .. (NValue - 1)) : mj[2] \notin pin[mj[1]]})

\* nodal_local_eqn(l, i): the element's own number of the unknown, -1 if pinned
nodal_local_eqn(pin, e, l, i) ==
  IF i \in pin[Element_node(e, l)] THEN 0 - 1
  ELSE Cardinality({mj \in (0 .. (Nnode - 1)) \X (0 .. (NValue - 1)) :
                      /\ mj[2] \notin pin[Element_node(e, mj[1])]
                      /\ (mj[1] < l \/ (mj[1] = l /\ mj[2] < i))})

\* eqn_number(local): the global equation number of a local unknown
eqn_number(pin, e, local) ==
  LET lj == CHOOSE mj \in (0 .. (Nnode - 1)) \X (0 .. (NValue - 1)) :
                     nodal_local_eqn(pin, e, mj[1], mj[2]) = local
  IN  Global_eqn(pin, Element_node(e, lj[1]), lj[2])

ndof_types == 1

\* The loops of get_dof_numbers_for_unknowns over the nodes n and the first
\* nvalue values i of each; k counts the pairs (n, i) handled so far
RECURSIVE get_dof_numbers_loop(_, _, _, _, _)
get_dof_numbers_loop(pin, e, nvalue, k, dof_lookup_list) ==
  IF k >= Nnode * nvalue THEN dof_lookup_list
  ELSE LET n == k \div nvalue
           i == k % nvalue
           local_unknown == nodal_local_eqn(pin, e, n, i)
       IN  get_dof_numbers_loop(pin, e, nvalue, k + 1,
             IF local_unknown >= 0
               THEN <<<<eqn_number(pin, e, local_unknown), 0>>>>
                      \o dof_lookup_list
               ELSE dof_lookup_list)

\* A classification that stops after the three real parts and the first two
\* imaginary parts
get_dof_numbers_without_last_value(pin, e, dof_lookup_list) ==
  get_dof_numbers_loop(pin, e, NValue - 1, 0, dof_lookup_list)

get_dof_numbers_for_unknowns(pin, e, dof_lookup_list) ==
  get_dof_numbers_loop(pin, e, NValue, 0, dof_lookup_list)

(***************************************************************************)
(* The block structure manager.                                            *)
(***************************************************************************)
\* The lookup list of the whole mesh: every element adds its pairs
RECURSIVE Mesh_dof_lookup_list(_, _)
Mesh_dof_lookup_list(pin, e) ==
  IF e >= MaxElement THEN <<>>
  ELSE get_dof_numbers_for_unknowns(pin, e, Mesh_dof_lookup_list(pin, e + 1))

\* The DOF -> type map of a lookup list (a DOF that several elements share is
\* listed by each of them, with the same type)
Dof_to_block_map(list) ==
  [g \in {list[k][1] : k \in 1 .. Len(list)} |->
     LET k == CHOOSE k \in 1 .. Len(list) : list[k][1] = g IN list[k][2]]

\* The classifications a caller can supply instead of the elements' own: the
\* DOFs dealt round the block types, and the DOFs cut into two halves
CallerClassifications(nd) ==
  {[g \in Blocks(nd) |-> g % t] : t \in 1 .. MaxType}
    \cup {[g \in Blocks(nd) |-> IF 2 * g < nd THEN 1 ELSE 0]}

\* get_block_vectors: entry Index_in_block(g) of block Block_number(g) is the
\* global vector's entry g
Get_block_vectors(label, v) ==
  [b \in {Block_number(label, g) : g \in DOMAIN label} |->
     [q \in Blocks(Block_dimension(label, b)) |->
        LET g == CHOOSE g \in DOMAIN label :
                   Block_number(label, g) = b /\ Index_in_block(label, g) = q
        IN  v[g]]]

\* return_block_vectors: every DOF of the map fetches its entry; written[g]
\* counts the writes to entry g of the result, which starts at zero
Return_block_vectors(label, nd, bv) ==
  [vec |-> [g \in Blocks(nd) |->
              IF g \in DOMAIN label
                THEN bv[Block_number(label, g)][Index_in_block(label, g)]
                ELSE 0],
   written |-> [g \in Blocks(nd) |-> IF g \in DOMAIN label THEN 1 ELSE 0]]

NotBuilt == [built |-> FALSE]

\* The global vectors handed to get_block_vectors: all entries different
VectorChoices(nd) ==
  {[g \in Blocks(nd) |-> g + 1], [g \in Blocks(nd) |-> 2 * (nd - g)]}

\* The pinned values of a node: none, the r components, the theta components,
\* all six
PinChoices == {{}, {0, 3}, {2, 5}, 0 .. (NValue - 1)}

(***************************************************************************)
(* The operations of the block structure manager.                          *)
(***************************************************************************)
\* block_setup() with the classification of the mesh's elements
BlockSetupFromElements ==
  /\ block_setup' = [built |-> TRUE, source |-> "elements",
                     label |-> Dof_to_block_map(Mesh_dof_lookup_list(pinned, 0))]
  /\ block_vectors' = NotBuilt
  /\ returned' = NotBuilt
  /\ UNCHANGED <<prec_vars, mv_vars, ext_vars>>
  /\ UNCHANGED <<pinned, global_vector>>

\* block_setup() with a classification the caller supplies
BlockSetupFromCaller ==
  /\ \E lab \in CallerClassifications(Ndof(pinned)) :
        block_setup' = [built |-> TRUE, source |-> "caller", label |-> lab]
  /\ block_vectors' = NotBuilt
  /\ returned' = NotBuilt
  /\ UNCHANGED <<prec_vars, mv_vars, ext_vars>>
  /\ UNCHANGED <<pinned, global_vector>>

GetBlockVectors ==
  /\ block_setup.built
  /\ block_vectors' = [built |-> TRUE,
                       v |-> Get_block_vectors(block_setup.label, global_vector)]
  /\ returned' = NotBuilt
  /\ UNCHANGED <<prec_vars, mv_vars, ext_vars>>
  /\ UNCHANGED <<pinned, block_setup, global_vector>>

ReturnBlockVectors ==
  /\ block_vectors.built
  /\ returned' = [built |-> TRUE,
                  r |-> Return_block_vectors(block_setup.label, Ndof(pinned),
                                             block_vectors.v)]
  /\ UNCHANGED <<prec_vars, mv_vars, ext_vars>>
  /\ UNCHANGED <<pinned, block_setup, global_vector, block_vectors>>

\* C8: the map from a global DOF to (block, index within the block) is total
\* and injective, and extracting every block of a global vector and
\* reassembling them writes every global index exactly once and gives back the
\* original vector.
C8_BlockStructure ==
  /\ block_setup.built =>
       LET label == block_setup.label
       IN  /\ DOMAIN label = Blocks(Ndof(pinned))
           /\ \A g \in DOMAIN label : \A h \in DOMAIN label :
                 (g # h) =>
                   <<Block_number(label, g), Index_in_block(label, g)>>
                     # <<Block_number(label, h), Index_in_block(label, h)>>
           /\ \A g \in DOMAIN label :
                 Index_in_block(label, g)
                   < Block_dimension(label, Block_number(label, g))
  /\ returned.built =>
       /\ \A g \in Blocks(Ndof(pinned)) : returned.r.written[g] = 1
       /\ returned.r.vec = global_vector

C8_Witness ==
  /\ returned.built
  /\ block_setup.source = "elements"
  /\ pinned[0] = {0, 3} /\ pinned[1] = {}
  /\ Ndof(pinned) >= 10
  /\ \E b \in DOMAIN block_vectors.v :
        Block_dimension(block_setup.label, b) = Ndof(pinned)
  /\ returned.r.vec = global_vector

(***************************************************************************)
(* DoubleMultiVector. A state S of the vectors and the heap is the record  *)
(* [mv, lk, bl, fault]: the objects, the lookup arrays, the storage        *)
(* blocks and the undefined behaviour met so far. A pointer into a block   *)
(* is [blk, off]; the entries of a fresh double*[] are uninitialised.      *)
(***************************************************************************)
Objects == {"a", "b"}
Uninitialised == [blk |-> 0, off |-> 0]
Undefined == 0 - (MaxMagnitude + 1)

\* A LinearAlgebraDistribution on one process: built or not, and its rows
Unbuilt == [built |-> FALSE, nrow |-> 0]
Distributions == {[built |-> TRUE, nrow |-> r] : r \in 1 .. MaxRow}

\* DoubleMultiVector(): Values(0), Nvector(0), Internal_values(true),
\* Built(false)
DoubleMultiVector ==
  [Values |-> 0, Nvector |-> 0, Internal_values |-> TRUE, Built |-> FALSE,
   dist |-> Unbuilt]

nrow_local(m) == m.dist.nrow

SetFault(S, f) == IF S.fault = "none" THEN [S EXCEPT !.fault = f] ELSE S

\* delete[] Values[0], given the lookup array's entries
Delete_storage(S, ptrs) ==
  IF Len(ptrs) = 0 THEN SetFault(S, "read_out_of_range")
  ELSE IF ptrs[1] = Uninitialised THEN SetFault(S, "wild_free")
  ELSE IF ~S.bl[ptrs[1].blk].live THEN SetFault(S, "double_free")
  ELSE IF ptrs[1].off # 0 THEN SetFault(S, "invalid_free")
  ELSE [S EXCEPT !.bl[ptrs[1].blk] = [@ EXCEPT !.live = FALSE, !.data = <<>>]]

\* A clear() that leaves the lookup array of a shallow view allocated
MV_clear_keeps_borrowed_lookup(S, o) ==
  IF S.mv[o].Values = 0 THEN S
  ELSE LET id == S.mv[o].Values
           S1 == IF S.mv[o].Internal_values
                   THEN Delete_storage(S, S.lk[id].ptr) ELSE S
           S2 == IF S.mv[o].Internal_values
                   THEN [S1 EXCEPT !.lk[id] = [@ EXCEPT !.live = FALSE,
                                                        !.ptr = <<>>]]
                   ELSE S1
       IN  [S2 EXCEPT !.mv[o] = [@ EXCEPT !.Values = 0, !.dist = Unbuilt,
                                          !.Built = FALSE]]

\* clear()
MV_clear(S, o) ==
  IF S.mv[o].Values = 0 THEN S
  ELSE LET id == S.mv[o].Values
           S1 == IF S.mv[o].Internal_values
                   THEN Delete_storage(S, S.lk[id].ptr) ELSE S
       IN  [S1 EXCEPT !.lk[id] = [@ EXCEPT !.live = FALSE, !.ptr = <<>>],
                      !.mv[o] = [@ EXCEPT !.Values = 0, !.dist = Unbuilt,
                                          !.Built = FALSE]]

\* build(n_vector, dist_pt, initial_value)
MV_build(S, o, n_vector, d, initial_value) ==
  LET S1 == MV_clear(S, o)
      S2 == [S1 EXCEPT !.mv[o] = [@ EXCEPT !.Internal_values = TRUE,
                                           !.dist = d]]
      lid == Len(S2.lk) + 1
      bid == Len(S2.bl) + 1
  IN  IF d.built
        THEN [S2 EXCEPT
                !.lk = Append(@, [live |-> TRUE, owner |-> o,
                                  ptr |-> [v \in 1 .. n_vector |->
                                             [blk |-> bid,
                                              off |-> (v - 1) * d.nrow]]]),
                !.bl = Append(@, [live |-> TRUE, owner |-> o,
                                  data |-> [c \in 1 .. (n_vector * d.nrow) |->
                                              initial_value]]),
                !.mv[o] = [@ EXCEPT !.Nvector = n_vector, !.Values = lid,
                                    !.Built = TRUE]]
        ELSE [S2 EXCEPT !.mv[o] = [@ EXCEPT !.Built = FALSE]]

\* shallow_build(n_vector, dist_pt): the lookup array only
MV_shallow_build(S, o, n_vector, d) ==
  LET S1 == MV_clear(S, o)
      S2 == [S1 EXCEPT !.mv[o] = [@ EXCEPT !.Internal_values = FALSE,
                                           !.dist = d]]
      lid == Len(S2.lk) + 1
  IN  IF d.built
        THEN [S2 EXCEPT
                !.lk = Append(@, [live |-> TRUE, owner |-> o,
                                  ptr |-> [v \in 1 .. n_vector |->
                                             Uninitialised]]),
                !.mv[o] = [@ EXCEPT !.Nvector = n_vector, !.Values = lid,
                                    !.Built = TRUE]]
        ELSE [S2 EXCEPT !.mv[o] = [@ EXCEPT !.Built = FALSE]]

\* Values[v][i] of object o (v and i count from 0), or Undefined when the read
\* leaves the lookup array or the block, or goes through an uninitialised or
\* dangling pointer
MV_read(S, o, v, i) ==
  IF S.mv[o].Values = 0 THEN Undefined
  ELSE LET ptrs == S.lk[S.mv[o].Values].ptr
       IN  IF v >= Len(ptrs) THEN Undefined
           ELSE IF ptrs[v + 1] = Uninitialised THEN Undefined
           ELSE IF ~S.bl[ptrs[v + 1].blk].live THEN Undefined
           ELSE IF ptrs[v + 1].off + i >= Len(S.bl[ptrs[v + 1].blk].data)
                  THEN Undefined
           ELSE S.bl[ptrs[v + 1].blk].data[ptrs[v + 1].off + i + 1]

\* What operator== can return: it walks this object's Nvector x nrow_local
\* entries in order and stops at the first difference; an undefined read on the
\* way makes either answer possible
MV_equal(S, this, vec) ==
  IF S.mv[vec].Built # S.mv[this].Built THEN {FALSE}
  ELSE IF ~S.mv[this].Built THEN {TRUE}
  ELSE LET nr == nrow_local(S.mv[this])
           cmp(k) ==
             LET x == MV_read(S, this, k \div nr, k % nr)
                 y == MV_read(S, vec, k \div nr, k % nr)
             IN  IF x = Undefined \/ y = Undefined THEN "undefined"
                 ELSE IF x # y THEN "differ" ELSE "equal"
           bad == {k \in 0 .. (S.mv[this].Nvector * nr - 1) : cmp(k) # "equal"}
       IN  IF bad = {} THEN {TRUE}
           ELSE IF cmp(CHOOSE k \in bad : \A j \in bad : k <= j) = "differ"
                  THEN {FALSE}
           ELSE {TRUE, FALSE}

\* shallow_build(old_vector), when operator== answered eq
MV_shallow_build_from(S, o, old, eq) ==
  IF eq THEN S
  ELSE LET S1 == [S EXCEPT !.mv[o] = [@ EXCEPT
                                        !.Internal_values = FALSE,
                                        !.Nvector = S.mv[old].Nvector]]
           S2 == MV_shallow_build(S1, o, S1.mv[o].Nvector, S1.mv[old].dist)
       IN  IF S2.mv[o].dist.built
             THEN [S2 EXCEPT !.lk[S2.mv[o].Values] =
                               [@ EXCEPT !.ptr = S2.lk[S2.mv[old].Values].ptr]]
             ELSE S2

\* build(old_vector), when operator== answered eq
MV_build_from(S, o, old, eq) ==
  IF eq THEN S
  ELSE LET S1 == [S EXCEPT !.mv[o] = [@ EXCEPT
                                        !.Internal_values = TRUE,
                                        !.Nvector = S.mv[old].Nvector]]
           S2 == MV_build(S1, o, S1.mv[o].Nvector, S1.mv[old].dist, 0)
           nr == nrow_local(S2.mv[o])
           cells == 1 .. (S2.mv[o].Nvector * nr)
           src(c) == MV_read(S2, old, (c - 1) \div nr, (c - 1) % nr)
       IN  IF S2.mv[o].dist.built
             THEN LET S3 == [S2 EXCEPT !.bl[Len(S2.bl)] =
                               [@ EXCEPT !.data = [c \in cells |->
                                   IF src(c) = Undefined THEN 0 ELSE src(c)]]]
                  IN  IF \E c \in cells : src(c) = Undefined
                        THEN SetFault(S3, "use_after_free") ELSE S3
             ELSE S2

(***************************************************************************)
(* The operations of DoubleMultiVector. Once the program has run into      *)
(* undefined behaviour nothing more is said about it.                      *)
(***************************************************************************)
MVState ==
  [mv |-> mv, lk |-> lookup_arrays, bl |-> storage_blocks, fault |-> mv_fault,
   dv |-> Internal_doublevector]

\* The operations counted as arithmetic calls
Arithmetic == {"+=", "-=", "*=", "dot", "norm"}

MVBecomes(S, r) ==
  /\ mv' = S.mv
  /\ lookup_arrays' = S.lk
  /\ storage_blocks' = S.bl
  /\ mv_fault' = S.fault
  /\ Internal_doublevector' = S.dv
  /\ mv_ret' = r
  /\ calls' = IF r.op \in Arithmetic THEN calls + 1 ELSE calls
  /\ UNCHANGED checked
  /\ UNCHANGED col_vars
  /\ UNCHANGED <<prec_vars, blk_vars, ext_vars>>

MVRunning == mv_fault = "none"
CanAllocateLookup == Len(lookup_arrays) < MaxLookup
CanAllocateStorage == Len(storage_blocks) < MaxStorage
DistributionChoices == Distributions \cup {Unbuilt}

MVBuild ==
  /\ MVRunning /\ CanAllocateLookup /\ CanAllocateStorage
  /\ \E o \in Objects : \E n \in 0 .. MaxVec : \E d \in DistributionChoices :
     \E v \in 0 .. MaxVal :
        MVBecomes(MV_build(MVState, o, n, d, v),
                  [op |-> "build", obj |-> o, n_vector |-> n, dist |-> d,
                   initial_value |-> v])

MVShallowBuild ==
  /\ MVRunning /\ CanAllocateLookup
  /\ \E o \in Objects : \E n \in 0 .. MaxVec : \E d \in DistributionChoices :
        MVBecomes(MV_shallow_build(MVState, o, n, d),
                  [op |-> "shallow_build", obj |-> o, n_vector |-> n,
                   dist |-> d])

MVShallowBuildFrom ==
  /\ MVRunning /\ CanAllocateLookup
  /\ \E o \in Objects : \E old \in Objects \ {o} :
     \E eq \in MV_equal(MVState, o, old) :
        MVBecomes(MV_shallow_build_from(MVState, o, old, eq),
                  [op |-> "shallow_build_from", obj |-> o, old |-> old,
                   equal |-> eq])

MVBuildFrom ==
  /\ MVRunning /\ CanAllocateLookup /\ CanAllocateStorage
  /\ \E o \in Objects : \E old \in Objects \ {o} :
     \E eq \in MV_equal(MVState, o, old) :
        MVBecomes(MV_build_from(MVState, o, old, eq),
                  [op |-> "build_from", obj |-> o, old |-> old,
                   equal |-> eq])

MVClear ==
  /\ MVRunning
  /\ \E o \in Objects :
        MVBecomes(MV_clear(MVState, o),
                  [op |-> "clear", obj |-> o])

NextMV ==
  \/ MVBuild
  \/ MVShallowBuild
  \/ MVShallowBuildFrom
  \/ MVBuildFrom
  \/ MVClear

\* The lookup array a multivector's Values points to
LookupOf(o) == lookup_arrays[mv[o].Values]

\* Object o borrows storage: its pointers lead into a block another object
\* allocated
BorrowsStorage(o) ==
  /\ mv[o].Values # 0
  /\ ~mv[o].Internal_values
  /\ Len(LookupOf(o).ptr) > 0
  /\ \A v \in DOMAIN LookupOf(o).ptr :
        /\ LookupOf(o).ptr[v] # Uninitialised
        /\ storage_blocks[LookupOf(o).ptr[v].blk].owner # o

\* C9 as the specification states it: the lookup array and the storage block
\* of a multivector are both its own or both borrowed, so that an object holds
\* a lookup array it allocated exactly when it owns its storage.
C9_OwnershipNeverMixed ==
  \A o \in Objects :
     (mv[o].Values # 0) =>
        ((LookupOf(o).owner = o) <=> mv[o].Internal_values)

\* C9 as the code has it: until the program runs into undefined behaviour,
\* every multivector with non-null Values, deep or shallow, holds a live lookup
\* array of Nvector pointers that it allocated itself and shares with no other
\* object, and every live lookup array is the Values of the object that
\* allocated it: a shallow view borrows the storage only, and allocates and
\* frees a lookup array of its own.
C9_LookupArrayAlwaysOwned ==
  MVRunning =>
    /\ \A o \in Objects :
          (mv[o].Values # 0) =>
             /\ mv[o].Values \in DOMAIN lookup_arrays
             /\ LookupOf(o).live
             /\ LookupOf(o).owner = o
             /\ Len(LookupOf(o).ptr) = mv[o].Nvector
             /\ \A p \in Objects \ {o} : mv[p].Values # mv[o].Values
    /\ \A id \in DOMAIN lookup_arrays :
          lookup_arrays[id].live => mv[lookup_arrays[id].owner].Values = id

C9_Witness ==
  /\ MVRunning
  /\ \E o \in Objects :
        /\ BorrowsStorage(o)
        /\ LookupOf(o).live /\ LookupOf(o).owner = o
        /\ \E id \in DOMAIN lookup_arrays :
              ~lookup_arrays[id].live /\ lookup_arrays[id].owner = o

\* C10: build(k, dist, v) on an object in any state leaves, when dist is
\* built, a built multivector that owns its storage, with nvector() = k and
\* one live block of k * nrow_local entries all equal to v in which vector j
\* starts at offset j * nrow_local; when dist is not built it leaves the object
\* unbuilt with null Values; and the call runs into no undefined behaviour.
C10_BuildPostcondition ==
  (mv_ret.op = "build") =>
     LET o == mv_ret.obj
         k == mv_ret.n_vector
         d == mv_ret.dist
     IN  /\ MVRunning
         /\ IF d.built
              THEN /\ mv[o].Built /\ mv[o].Internal_values
                   /\ mv[o].Nvector = k
                   /\ mv[o].dist = d
                   /\ mv[o].Values # 0
                   /\ LookupOf(o).live
                   /\ Len(LookupOf(o).ptr) = k
                   /\ \E b \in DOMAIN storage_blocks :
                         /\ storage_blocks[b].live
                         /\ storage_blocks[b].owner = o
                         /\ Len(storage_blocks[b].data) = k * d.nrow
                         /\ \A c \in DOMAIN storage_blocks[b].data :
                               storage_blocks[b].data[c] = mv_ret.initial_value
                         /\ \A j \in 1 .. k :
                               LookupOf(o).ptr[j]
                                 = [blk |-> b, off |-> (j - 1) * d.nrow]
              ELSE ~mv[o].Built /\ mv[o].Values = 0

\* Values[v][i] = x through operator()(v, i) without range checking
MV_write(S, o, v, i, x) ==
  IF MV_read(S, o, v, i) = Undefined THEN SetFault(S, "invalid_write")
  ELSE LET p == S.lk[S.mv[o].Values].ptr[v + 1]
       IN  [S EXCEPT !.bl[p.blk] = [@ EXCEPT !.data[p.off + i + 1] = x]]

\* setup_doublevector_representation(): one DoubleVector per vector, each on
\* the external values this->values(v)
setup_doublevector_representation(S, o) ==
  IF S.mv[o].Nvector = 0 THEN [S EXCEPT !.dv[o] = <<>>]
  ELSE IF S.mv[o].Values = 0
         THEN SetFault([S EXCEPT !.dv[o] = <<>>], "null_dereference")
  ELSE IF Len(S.lk[S.mv[o].Values].ptr) < S.mv[o].Nvector
         THEN SetFault([S EXCEPT !.dv[o] = <<>>], "read_out_of_range")
  ELSE [S EXCEPT !.dv[o] = [v \in 1 .. S.mv[o].Nvector |->
                              S.lk[S.mv[o].Values].ptr[v]]]

\* The fields a constructor's initialiser list sets before its body runs
Constructed(S, o, n_vector, internal) ==
  [S EXCEPT !.mv[o] = [DoubleMultiVector EXCEPT !.Nvector = n_vector,
                                                !.Internal_values = internal]]

\* A column-subset constructor whose shallow branch takes the columns
\* 0, 1, ... instead of index[0], index[1], ...
MV_construct_leading_columns(S, o, old, index, deep_copy) ==
  LET n_vector == Len(index)
      S0 == Constructed(S, o, 0, deep_copy)
      S1 == MV_shallow_build(S0, o, n_vector, S0.mv[old].dist)
      oldptr == IF S1.mv[old].Values = 0 THEN <<>>
                ELSE S1.lk[S1.mv[old].Values].ptr
  IN  IF n_vector = 0 THEN setup_doublevector_representation(S1, o)
      ELSE IF S1.mv[o].Values = 0 \/ n_vector > Len(oldptr)
             THEN SetFault(S1, "null_dereference")
      ELSE setup_doublevector_representation(
             [S1 EXCEPT !.lk[S1.mv[o].Values] =
                [@ EXCEPT !.ptr = [v \in 1 .. n_vector |-> oldptr[v]]]], o)

\* DoubleMultiVector(old_vector, index, deep_copy) on the new object o
MV_construct_columns(S, o, old, index, deep_copy) ==
  LET n_vector == Len(index)
      S0 == Constructed(S, o, 0, deep_copy)
  IN  IF deep_copy
        THEN LET S1 == MV_build(S0, o, n_vector, S0.mv[old].dist, 0)
                 nr == nrow_local(S1.mv[o])
                 cells == 1 .. (n_vector * nr)
                 src(c) == MV_read(S1, old, index[((c - 1) \div nr) + 1],
                                   (c - 1) % nr)
                 S2 == IF cells = {} THEN S1
                       ELSE [S1 EXCEPT !.bl[Len(S1.bl)] =
                               [@ EXCEPT !.data = [c \in cells |->
                                  IF src(c) = Undefined THEN 0 ELSE src(c)]]]
                 S3 == IF \E c \in cells : src(c) = Undefined
                         THEN SetFault(S2, "invalid_read") ELSE S2
             IN  setup_doublevector_representation(S3, o)
        ELSE LET S1 == MV_shallow_build(S0, o, n_vector, S0.mv[old].dist)
                 oldptr == IF S1.mv[old].Values = 0 THEN <<>>
                           ELSE S1.lk[S1.mv[old].Values].ptr
             IN  IF n_vector = 0 THEN setup_doublevector_representation(S1, o)
                 ELSE IF S1.mv[o].Values = 0
                        THEN SetFault(S1, "null_dereference")
                 ELSE IF \E v \in 1 .. n_vector : index[v] >= Len(oldptr)
                        THEN SetFault(S1, "read_out_of_range")
                 ELSE setup_doublevector_representation(
                        [S1 EXCEPT !.lk[S1.mv[o].Values] =
                           [@ EXCEPT !.ptr = [v \in 1 .. n_vector |->
                                                oldptr[index[v] + 1]]]], o)

\* The column selections handed to the constructor
IndexChoices ==
  UNION {[1 .. n -> 0 .. (MaxVec - 1)] : n \in 0 .. MaxVec}

\* Whether every entry of object o can be read
MV_readable(S, o) ==
  /\ S.mv[o].Built
  /\ \A v \in 0 .. (S.mv[o].Nvector - 1) :
     \A i \in 0 .. (nrow_local(S.mv[o]) - 1) : MV_read(S, o, v, i) # Undefined

\* The column-subset construction an operation was carried out under, if any
NoView == [obj |-> "none"]
ViewOf(r) == IF "view" \in DOMAIN r THEN r.view ELSE NoView

\* A constructor builds a new object: one that is as the default constructor
\* leaves it and holds no DoubleVectors
IsNew(o) == mv[o] = DoubleMultiVector /\ Internal_doublevector[o] = <<>>

MVConstructFromColumns ==
  /\ MVRunning /\ CanAllocateLookup /\ CanAllocateStorage
  /\ \E o \in Objects : \E old \in Objects \ {o} : \E index \in IndexChoices :
     \E deep_copy \in BOOLEAN :
        /\ IsNew(o)
        /\ MVBecomes(MV_construct_columns(MVState, o, old, index, deep_copy),
             [op |-> "construct_columns",
              view |-> [obj |-> o, old |-> old, index |-> index,
                        deep_copy |-> deep_copy,
                        blocks_before |-> Len(storage_blocks),
                        valid |-> /\ MV_readable(MVState, old)
                                  /\ \A v \in DOMAIN index :
                                        index[v] < mv[old].Nvector]])

\* a(v, i) = x, with v and i in range
MVWrite ==
  /\ MVRunning
  /\ \E o \in Objects : \E x \in 0 .. MaxVal :
     \E v \in 0 .. (mv[o].Nvector - 1) :
     \E i \in 0 .. (nrow_local(mv[o]) - 1) :
        /\ mv[o].Built
        /\ MVBecomes(MV_write(MVState, o, v, i, x),
                     [op |-> "write", obj |-> o, v |-> v, i |-> i, x |-> x,
                      view |-> ViewOf(mv_ret)])

\* The value object o shows at (v, i) in the current and in the next state
Shows(o, v, i) == MV_read(MVState, o, v, i)
ShowsNext(o, v, i) ==
  MV_read([mv |-> mv', lk |-> lookup_arrays', bl |-> storage_blocks',
           fault |-> mv_fault', dv |-> Internal_doublevector'], o, v, i)

\* C11, the state part: after DoubleMultiVector(other, index, deep_copy) on a
\* readable other with index in range, and after any writes that follow, the
\* new multivector has index.size() vectors; with deep_copy = false its vector
\* v is other's vector index[v] (same pointer, so both show the same values,
\* and the constructor allocated no storage block); with deep_copy = true it
\* owns a block of its own and, right after the construction, entry (v, i)
\* equals other(index[v], i).
C11_ColumnSubsetState ==
  LET w == ViewOf(mv_ret)
  IN  (w.obj # "none" /\ w.valid) =>
        /\ MVRunning
        /\ mv[w.obj].Built
        /\ mv[w.obj].Nvector = Len(w.index)
        /\ mv[w.obj].Internal_values = w.deep_copy
        /\ \A v \in DOMAIN w.index :
              LET mine == LookupOf(w.obj).ptr[v]
                  theirs == LookupOf(w.old).ptr[w.index[v] + 1]
              IN  IF w.deep_copy
                    THEN /\ storage_blocks[mine.blk].owner = w.obj
                         /\ mine.blk # theirs.blk
                         /\ (mv_ret.op = "construct_columns") =>
                               \A i \in 0 .. (nrow_local(mv[w.obj]) - 1) :
                                  Shows(w.obj, v - 1, i)
                                    = Shows(w.old, w.index[v], i)
                    ELSE /\ mine = theirs
                         /\ \A i \in 0 .. (nrow_local(mv[w.obj]) - 1) :
                               Shows(w.obj, v - 1, i)
                                 = Shows(w.old, w.index[v], i)
        /\ ~w.deep_copy => Len(storage_blocks) = w.blocks_before

\* C11: the state part always holds, and every later write through one of the
\* two objects, at (v, i), shows in the written object, changes the other
\* object exactly at the entries that alias (v, i) when the copy is shallow,
\* and changes nothing of the other object when the copy is deep.
C11_ColumnSubsetConstruction ==
  /\ []C11_ColumnSubsetState
  /\ [][(mv_ret'.op = "write" /\ ViewOf(mv_ret').obj # "none"
         /\ ViewOf(mv_ret').valid)
        => LET w == ViewOf(mv_ret')
               r == mv_ret'
               other == IF r.obj = w.obj THEN w.old ELSE w.obj
           IN  /\ ShowsNext(r.obj, r.v, r.i) = r.x
               /\ \A v \in 0 .. (mv[other].Nvector - 1) :
                  \A i \in 0 .. (nrow_local(mv[other]) - 1) :
                     ShowsNext(other, v, i) =
                       IF /\ ~w.deep_copy
                          /\ i = r.i
                          /\ LookupOf(other).ptr[v + 1]
                               = LookupOf(r.obj).ptr[r.v + 1]
                         THEN r.x
                         ELSE Shows(other, v, i)]_vars

C11_Witness ==
  /\ mv_ret.op = "write" /\ MVRunning
  /\ ViewOf(mv_ret).obj = "b" /\ ViewOf(mv_ret).valid
  /\ ~ViewOf(mv_ret).deep_copy
  /\ ViewOf(mv_ret).index = <<1, 0>>
  /\ mv_ret.obj = "a" /\ mv_ret.v = 1 /\ mv_ret.x = 1
  /\ Shows("b", 0, mv_ret.i) = 1
  /\ Shows("a", 0, mv_ret.i) = 0

(***************************************************************************)
(* Arithmetic on doubles: every result is rounded to the nearest number    *)
(* with MantissaBits significant bits, ties to the even significand.       *)
(***************************************************************************)
RECURSIVE Pow2(_)
Pow2(e) == IF e = 0 THEN 1 ELSE 2 * Pow2(e - 1)

\* The spacing of the representable numbers around magnitude m
RECURSIVE UlpFrom(_, _)
UlpFrom(m, q) == IF m < Pow2(MantissaBits) * q THEN q ELSE UlpFrom(m, 2 * q)

RoundMagnitude(m) ==
  LET q == UlpFrom(m, 1)
      lo == (m \div q) * q
  IN  IF 2 * (m - lo) < q THEN lo
      ELSE IF 2 * (m - lo) > q THEN lo + q
      ELSE IF (m \div q) % 2 = 0 THEN lo ELSE lo + q

\* The double nearest to the real number x
Fl(x) == IF x < 0 THEN 0 - RoundMagnitude(0 - x) ELSE RoundMagnitude(x)

(***************************************************************************)
(* operator+=, operator-=, operator*=, dot and norm of DoubleMultiVector.  *)
(***************************************************************************)
\* The parameter `DoubleMultiVector vec` of += and -=, passed by value: the
\* copy constructor makes a deep copy (nothing if vec is not built), and the
\* copy is destroyed when the operator returns or throws. Its storage lives
\* only within the call and is not entered in the heap of the model.
MV_copy(S, vec) ==
  IF ~S.mv[vec].Built
    THEN [Built |-> FALSE, Nvector |-> 0, dist |-> Unbuilt, val |-> <<>>,
          fault |-> "none"]
    ELSE LET nv == S.mv[vec].Nvector
             nr == nrow_local(S.mv[vec])
             src(c) == MV_read(S, vec, (c - 1) \div nr, (c - 1) % nr)
         IN  [Built |-> TRUE, Nvector |-> nv, dist |-> S.mv[vec].dist,
              val |-> [c \in 1 .. (nv * nr) |-> src(c)],
              fault |-> IF \E c \in 1 .. (nv * nr) : src(c) = Undefined
                          THEN "invalid_read" ELSE "none"]

\* ~DoubleMultiVector() of the copy: clear() reads Values[0], which a copy
\* with no vectors does not have
MV_destroy_copy(S, cp) ==
  IF cp.Built /\ cp.Nvector = 0 THEN SetFault(S, "read_out_of_range") ELSE S

\* v_values[v][i] of the copy
MV_copy_read(cp, v, i) ==
  IF ~cp.Built \/ v >= cp.Nvector THEN Undefined
  ELSE IF v * cp.dist.nrow + i >= Len(cp.val) THEN Undefined
  ELSE cp.val[v * cp.dist.nrow + i + 1]

\* The loops of += (sign = 1) and -= (sign = -1) from entry k on
RECURSIVE MV_add_loop(_, _, _, _, _)
MV_add_loop(S, o, cp, sign, k) ==
  LET nr == nrow_local(S.mv[o])
  IN  IF k >= S.mv[o].Nvector * nr THEN S
      ELSE LET v == k \div nr
               i == k % nr
               x == MV_read(S, o, v, i)
               y == MV_copy_read(cp, v, i)
           IN  IF x = Undefined \/ y = Undefined
                 THEN SetFault(S, "invalid_read")
                 ELSE MV_add_loop(MV_write(S, o, v, i, Fl(x + sign * y)),
                                  o, cp, sign, k + 1)

\* operator+=(vec)
MV_plus_eq(S, o, vec, paranoid) ==
  LET cp == MV_copy(S, vec)
      S1 == IF cp.fault = "none" THEN S ELSE SetFault(S, cp.fault)
  IN  IF paranoid /\ (~S.mv[o].Built \/ ~cp.Built \/ cp.dist # S.mv[o].dist)
        THEN [S |-> MV_destroy_copy(S1, cp), status |-> "error"]
        ELSE [S |-> MV_destroy_copy(MV_add_loop(S1, o, cp, 1, 0), cp),
              status |-> "ok"]

\* A -= that adds
MV_minus_eq_adds(S, o, vec, paranoid) ==
  LET cp == MV_copy(S, vec)
      S1 == IF cp.fault = "none" THEN S ELSE SetFault(S, cp.fault)
  IN  IF paranoid /\ (~S.mv[o].dist.built \/ ~cp.Built
                       \/ cp.dist # S.mv[o].dist)
        THEN [S |-> MV_destroy_copy(S1, cp), status |-> "error"]
        ELSE [S |-> MV_destroy_copy(MV_add_loop(S1, o, cp, 1, 0), cp),
              status |-> "ok"]

\* operator-=(vec)
MV_minus_eq(S, o, vec, paranoid) ==
  LET cp == MV_copy(S, vec)
      S1 == IF cp.fault = "none" THEN S ELSE SetFault(S, cp.fault)
  IN  IF paranoid /\ (~S.mv[o].dist.built \/ ~cp.Built
                       \/ cp.dist # S.mv[o].dist)
        THEN [S |-> MV_destroy_copy(S1, cp), status |-> "error"]
        ELSE [S |-> MV_destroy_copy(MV_add_loop(S1, o, cp, 0 - 1, 0), cp),
              status |-> "ok"]

RECURSIVE MV_scale_loop(_, _, _, _)
MV_scale_loop(S, o, scalar_value, k) ==
  LET nr == nrow_local(S.mv[o])
  IN  IF k >= S.mv[o].Nvector * nr THEN S
      ELSE LET x == MV_read(S, o, k \div nr, k % nr)
           IN  IF x = Undefined THEN SetFault(S, "invalid_read")
               ELSE MV_scale_loop(
                      MV_write(S, o, k \div nr, k % nr, Fl(x * scalar_value)),
                      o, scalar_value, k + 1)

\* operator*=(scalar_value)
MV_times_eq(S, o, scalar_value, paranoid) ==
  IF paranoid /\ ~S.mv[o].dist.built
    THEN [S |-> S, status |-> "error"]
    ELSE [S |-> MV_scale_loop(S, o, scalar_value, 0), status |-> "ok"]

\* n[v] of dot after the first k rows: n[v] += Values[v][i] * vec_values_pt[i]
RECURSIVE MV_dot_sum(_, _, _, _, _)
MV_dot_sum(S, o, vec, v, k) ==
  IF k = 0 THEN 0
  ELSE Fl(MV_dot_sum(S, o, vec, v, k - 1)
            + Fl(MV_read(S, o, v, k - 1) * MV_read(S, vec, v, k - 1)))

\* Whether the loops of dot read only entries that can be read
MV_dot_defined(S, o, vec) ==
  \A v \in 0 .. (S.mv[o].Nvector - 1) :
  \A i \in 0 .. (nrow_local(S.mv[o]) - 1) :
     MV_read(S, o, v, i) # Undefined /\ MV_read(S, vec, v, i) # Undefined

\* dot(vec, result) on one process; result is the caller's vector
MV_dot(S, o, vec, paranoid, result) ==
  IF paranoid /\ (~S.mv[o].Built \/ ~S.mv[vec].Built
                   \/ S.mv[o].dist # S.mv[vec].dist)
    THEN [status |-> "error", result |-> result, fault |-> S.fault]
    ELSE LET n == [v \in 1 .. S.mv[o].Nvector |->
                     MV_dot_sum(S, o, vec, v - 1, nrow_local(S.mv[o]))]
         IN  IF ~MV_dot_defined(S, o, vec)
               THEN [status |-> "ok", result |-> result,
                     fault |-> SetFault(S, "invalid_read").fault]
               ELSE [status |-> "ok", result |-> n, fault |-> S.fault]

\* The square root of n, in units of 1 / SqrtScale, rounded to the nearest
RECURSIVE SqrtFrom(_, _)
SqrtFrom(m, r) == IF (r + 1) * (r + 1) > m THEN r ELSE SqrtFrom(m, r + 1)

Sqrt(n) ==
  LET m == n * SqrtScale * SqrtScale
      r == SqrtFrom(m, 0)
  IN  IF m - r * r <= r THEN r ELSE r + 1

\* A norm that leaves out the square root
MV_norm_squared(S, o, paranoid, result) ==
  IF paranoid /\ ~S.mv[o].Built
    THEN [status |-> "error", result |-> result, fault |-> S.fault]
    ELSE LET n == [v \in 1 .. S.mv[o].Nvector |->
                     MV_dot_sum(S, o, o, v - 1, nrow_local(S.mv[o]))]
         IN  IF ~MV_dot_defined(S, o, o)
               THEN [status |-> "ok", result |-> result,
                     fault |-> SetFault(S, "invalid_read").fault]
               ELSE [status |-> "ok", result |-> n, fault |-> S.fault]

\* norm(result) on one process
MV_norm(S, o, paranoid, result) ==
  IF paranoid /\ ~S.mv[o].Built
    THEN [status |-> "error", result |-> result, fault |-> S.fault]
    ELSE LET n == [v \in 1 .. S.mv[o].Nvector |->
                     MV_dot_sum(S, o, o, v - 1, nrow_local(S.mv[o]))]
         IN  IF ~MV_dot_defined(S, o, o)
               THEN [status |-> "ok", result |-> result,
                     fault |-> SetFault(S, "invalid_read").fault]
               ELSE [status |-> "ok", result |-> [v \in DOMAIN n |-> Sqrt(n[v])],
                     fault |-> S.fault]

Paranoid == "PARANOID" \in checked

\* Every entry of the heap is within the magnitudes of the model
InRange(S) ==
  \A b \in DOMAIN S.bl : \A c \in DOMAIN S.bl[b].data :
     Abs(S.bl[b].data[c]) <= MaxMagnitude

\* The entries object o shows, vector after vector
Snapshot(S, o) ==
  LET nr == nrow_local(S.mv[o])
  IN  [c \in 1 .. (S.mv[o].Nvector * nr) |->
         MV_read(S, o, (c - 1) \div nr, (c - 1) % nr)]

\* The storage blocks the pointers of object o lead into
Blocks_of(S, o) ==
  IF S.mv[o].Values = 0 THEN {}
  ELSE {S.lk[S.mv[o].Values].ptr[v].blk :
          v \in DOMAIN S.lk[S.mv[o].Values].ptr}

\* What += , -= and dot require of their operands in PARANOID mode
Operands_violate(o, vec) ==
  ~mv[o].Built \/ ~mv[vec].Built \/ mv[o].dist # mv[vec].dist

\* The operands of a += as the round trip of += and -= needs them
Operand_facts(o, vec) ==
  LET compatible == /\ mv[o].Built /\ mv[vec].Built
                    /\ mv[o].dist = mv[vec].dist
                    /\ mv[o].Nvector = mv[vec].Nvector
      readable == MV_readable(MVState, o) /\ MV_readable(MVState, vec)
      x == Snapshot(MVState, o)
      y == Snapshot(MVState, vec)
  IN  [compatible |-> compatible,
       readable |-> readable,
       disjoint |-> Blocks_of(MVState, o) \cap Blocks_of(MVState, vec) = {},
       exact |-> /\ compatible /\ readable
                 /\ \A c \in DOMAIN x : Fl(x[c] + y[c]) = x[c] + y[c],
       before_this |-> x,
       before_vec |-> y]

MVPlusEq ==
  /\ MVRunning
  /\ calls < MaxCalls
  /\ \E o \in Objects : \E vec \in Objects :
        LET r == MV_plus_eq(MVState, o, vec, Paranoid)
        IN  /\ InRange(r.S)
            /\ MVBecomes(r.S, [op |-> "+=", obj |-> o, vec |-> vec,
                               status |-> r.status,
                               violates |-> Operands_violate(o, vec),
                               facts |-> Operand_facts(o, vec)])

MVMinusEq ==
  /\ MVRunning
  /\ calls < MaxCalls
  /\ \E o \in Objects : \E vec \in Objects :
        LET r == MV_minus_eq(MVState, o, vec, Paranoid)
        IN  /\ InRange(r.S)
            /\ MVBecomes(r.S, [op |-> "-=", obj |-> o, vec |-> vec,
                               status |-> r.status,
                               violates |-> Operands_violate(o, vec),
                               prev |-> IF mv_ret.op = "+="
                                          THEN mv_ret ELSE Void("none")])

ScalarChoices == {0, 4}

MVTimesEq ==
  /\ MVRunning
  /\ calls < MaxCalls
  /\ \E o \in Objects : \E scalar_value \in ScalarChoices :
        LET r == MV_times_eq(MVState, o, scalar_value, Paranoid)
        IN  /\ InRange(r.S)
            /\ MVBecomes(r.S, [op |-> "*=", obj |-> o,
                               scalar_value |-> scalar_value,
                               status |-> r.status,
                               violates |-> ~mv[o].Built])

\* The vector the caller hands to dot and norm for the result
ResultChoices == {<<MaxMagnitude>>}

MVDot ==
  /\ MVRunning
  /\ calls < MaxCalls
  /\ \E o \in Objects : \E vec \in Objects : \E result \in ResultChoices :
        LET r == MV_dot(MVState, o, vec, Paranoid, result)
        IN  MVBecomes([MVState EXCEPT !.fault = r.fault],
                      [op |-> "dot", obj |-> o, vec |-> vec,
                       status |-> r.status, result |-> r.result,
                       result_before |-> result,
                       violates |-> Operands_violate(o, vec)])

MVNorm ==
  /\ MVRunning
  /\ calls < MaxCalls
  /\ \E o \in Objects : \E result \in ResultChoices :
        LET r == MV_norm(MVState, o, Paranoid, result)
        IN  MVBecomes([MVState EXCEPT !.fault = r.fault],
                      [op |-> "norm", obj |-> o,
                       status |-> r.status, result |-> r.result,
                       result_before |-> result,
                       violates |-> ~mv[o].Built])

\* DoubleMultiVector(n_vector, dist, v): the initialiser list sets Nvector,
\* the body builds and sets up the DoubleVectors
MV_construct(S, o, n_vector, dist, initial_value) ==
  setup_doublevector_representation(
    MV_build(Constructed(S, o, n_vector, TRUE), o, n_vector, dist,
             initial_value), o)

\* operator=(old_vector): build(old_vector), then the DoubleVectors
MV_assign(S, o, old, eq) ==
  LET S1 == MV_build_from(S, o, old, eq)
  IN  IF S1.fault # "none" THEN S1
      ELSE setup_doublevector_representation(S1, o)

MVConstruct ==
  /\ MVRunning /\ CanAllocateLookup /\ CanAllocateStorage
  /\ \E o \in Objects : \E n \in 0 .. MaxVec : \E d \in DistributionChoices :
     \E v \in 0 .. MaxVal :
        /\ IsNew(o)
        /\ MVBecomes(MV_construct(MVState, o, n, d, v),
                     [op |-> "construct", obj |-> o, n_vector |-> n,
                      dist |-> d, initial_value |-> v])

MVAssign ==
  /\ MVRunning /\ CanAllocateLookup /\ CanAllocateStorage
  /\ \E o \in Objects : \E old \in Objects \ {o} :
     \E eq \in MV_equal(MVState, o, old) :
        MVBecomes(MV_assign(MVState, o, old, eq),
                  [op |-> "=", obj |-> o, old |-> old, equal |-> eq])

\* doublevector(i) of object o exists and is a view of the storage vector i
\* of the object has now
Facade_current(o, i) ==
  /\ i < Len(Internal_doublevector[o])
  /\ mv[o].Values # 0
  /\ i < Len(lookup_arrays[mv[o].Values].ptr)
  /\ Internal_doublevector[o][i + 1] = lookup_arrays[mv[o].Values].ptr[i + 1]
  /\ Internal_doublevector[o][i + 1] # Uninitialised
  /\ storage_blocks[Internal_doublevector[o][i + 1].blk].live

\* C17: after any sequence of constructors, build, shallow_build, assignment
\* and clear, a built multivector has a doublevector(i) for every
\* i < nvector(), and it refers to the current storage of vector i.
C17_FacadeConsistent ==
  \A o \in Objects :
     (MVRunning /\ mv[o].Built) =>
        \A i \in 0 .. (mv[o].Nvector - 1) : Facade_current(o, i)

\* operator()(v, i) for int v and i. With RANGE_CHECKING the call throws when
\* v > Nvector or i >= nrow_local(); otherwise it returns Values[v][i], which
\* is read at offset i from the pointer of vector v: outside the lookup array,
\* through a pointer that was never set or is dangling, or outside the block,
\* the read is undefined.
MV_access(S, o, v, i, range_checking) ==
  IF range_checking /\ (v > S.mv[o].Nvector \/ i >= nrow_local(S.mv[o]))
    THEN [status |-> "range_error", value |-> Undefined]
  ELSE LET ptrs == IF S.mv[o].Values = 0 THEN <<>>
                   ELSE S.lk[S.mv[o].Values].ptr
           x == IF v < 0 \/ v >= Len(ptrs) THEN Undefined
                ELSE IF ptrs[v + 1] = Uninitialised THEN Undefined
                ELSE IF ~S.bl[ptrs[v + 1].blk].live THEN Undefined
                ELSE IF \/ ptrs[v + 1].off + i < 0
                        \/ ptrs[v + 1].off + i
                             >= Len(S.bl[ptrs[v + 1].blk].data)
                       THEN Undefined
                ELSE S.bl[ptrs[v + 1].blk].data[ptrs[v + 1].off + i + 1]
       IN  IF x = Undefined
             THEN [status |-> "undefined", value |-> Undefined]
             ELSE [status |-> "ok", value |-> x]

MVAccess ==
  /\ MVRunning
  /\ \E o \in Objects : \E v \in (0 - 1) .. (MaxVec + 1) :
     \E i \in (0 - 1) .. MaxRow :
        LET r == MV_access(MVState, o, v, i, "RANGE_CHECKING" \in checked)
        IN  MVBecomes(IF r.status = "undefined"
                        THEN SetFault(MVState, "invalid_read") ELSE MVState,
                      [op |-> "()", obj |-> o, v |-> v, i |-> i,
                       status |-> r.status, value |-> r.value])

\* C16: with RANGE_CHECKING, operator()(v, i) throws for every v outside
\* 0 .. nvector() - 1 and every i outside 0 .. nrow_local() - 1, v = nvector()
\* and negative indices included; it never returns from such a call.
C16_RangeCheckedAccess ==
  (/\ mv_ret.op = "()"
   /\ "RANGE_CHECKING" \in checked
   /\ \/ mv_ret.v \notin 0 .. (mv[mv_ret.obj].Nvector - 1)
      \/ mv_ret.i \notin 0 .. (nrow_local(mv[mv_ret.obj]) - 1))
  => mv_ret.status = "range_error"

\* C12: in PARANOID mode +=, -= and dot throw when an operand is not built or
\* the two distributions differ, and *= and norm throw when the object is not
\* built; the call ends in that error, changes no entry of any multivector and
\* leaves the caller's result vector as it was.
C12_CheckedPreconditions ==
  [][(/\ mv_ret'.op \in Arithmetic
      /\ Paranoid
      /\ mv_ret'.violates)
     => /\ mv_ret'.status = "error"
        /\ mv_fault' = "none"
        /\ UNCHANGED <<mv, lookup_arrays, storage_blocks>>
        /\ (mv_ret'.op \in {"dot", "norm"}) =>
              mv_ret'.result = mv_ret'.result_before]_vars

\* The += that a -= follows, when it had the same operands and both returned
RoundTrip ==
  /\ mv_ret.op = "-=" /\ mv_ret.status = "ok"
  /\ mv_ret.prev.op = "+=" /\ mv_ret.prev.status = "ok"
  /\ mv_ret.prev.obj = mv_ret.obj /\ mv_ret.prev.vec = mv_ret.vec
  /\ mv_ret.prev.facts.compatible

Communicators == {"world", "other"}

\* The first rows of processes 1 .. nproc - 1 of a distribution of nrow rows
Cuts(nproc, nrow) ==
  {c \in [1 .. (nproc - 1) -> 0 .. nrow] :
     \A q \in 1 .. (nproc - 2) : c[q] <= c[q + 1]}

\* A distribution in which no process holds the last row of its range
Gapped_distribution(comm, nproc, nrow, distributed, cut) ==
  LET first(q) == IF q = 0 THEN 0 ELSE IF q = nproc THEN nrow ELSE cut[q]
  IN  [comm |-> comm, nproc |-> nproc, nrow |-> nrow,
       distributed |-> distributed,
       first_row |-> [q \in 0 .. (nproc - 1) |->
                        IF distributed THEN first(q) ELSE 0],
       nrow_local |-> [q \in 0 .. (nproc - 1) |->
                         IF ~distributed THEN nrow
                         ELSE IF first(q + 1) > first(q)
                           THEN first(q + 1) - first(q) - 1
                         ELSE 0]]

\* A distribution of nrow global rows over the nproc processes of comm:
\* process q holds the rows first_row[q] .. first_row[q] + nrow_local[q] - 1
\* when it is distributed, and every process holds all rows when it is not
LinearAlgebraDistribution(comm, nproc, nrow, distributed, cut) ==
  LET first(q) == IF q = 0 THEN 0 ELSE IF q = nproc THEN nrow ELSE cut[q]
  IN  [comm |-> comm, nproc |-> nproc, nrow |-> nrow,
       distributed |-> distributed,
       first_row |-> [q \in 0 .. (nproc - 1) |->
                        IF distributed THEN first(q) ELSE 0],
       nrow_local |-> [q \in 0 .. (nproc - 1) |->
                         IF distributed THEN first(q + 1) - first(q)
                         ELSE nrow]]

\* distributed() && communicator_pt()->nproc() > 1
Spans_processes(D) == D.distributed /\ D.nproc > 1

\* The entries of n_vector vectors of nrow rows
GlobalValues(n_vector, nrow) ==
  [0 .. (n_vector - 1) -> [0 .. (nrow - 1) -> 0 .. MaxVal]]

\* The rows of the global entries g that process q holds under D
Local_rows(D, q, g) ==
  [v \in DOMAIN g |->
     [i \in 0 .. (D.nrow_local[q] - 1) |-> g[v][D.first_row[q] + i]]]

\* A multivector of a process: build(n_vector, dist) and the entries set
Multivector_on(D, q, n_vector, g) ==
  [dist |-> D, Nvector |-> n_vector, Values |-> Local_rows(D, q, g)]

\* The calls of a script
Call(name, vec, dist) == [name |-> name, vec |-> vec, dist |-> dist]
NoCall == Call("none", "none", Null)

\* A process between calls, before its first call
IdleProc ==
  [pc |-> "ready", at |-> 0, call |-> NoCall, status |-> "none",
   n |-> <<>>, n2 |-> <<>>, result |-> <<>>, lines |-> <<>>, temp |-> <<>>,
   v |-> 0, live |-> {}, reduces |-> 0, gathers |-> 0,
   before |-> <<>>, prev |-> Null]

\* Process q enters call c: the locals of the call are new; what the previous
\* call returned and the state the call started in are kept for the record
Entered(q, c) ==
  [IdleProc EXCEPT
     !.at = proc[q].at,
     !.call = c,
     !.before = node,
     !.prev = IF proc[q].at = 0 THEN Null
              ELSE [call |-> proc[q].call, status |-> proc[q].status,
                    result |-> proc[q].result, reduces |-> proc[q].reduces,
                    before |-> proc[q].before]]

\* The call returns
Returned(r) == [r EXCEPT !.pc = "ready", !.at = r.at + 1]

\* Process q makes its next call, c: the next of the script, or a new one
\* when no process has made this call yet
Begins(q, c) ==
  /\ proc[q].pc = "ready"
  /\ proc[q].at < MaxScript
  /\ IF proc[q].at < Len(script)
       THEN c = script[proc[q].at + 1] /\ UNCHANGED script
       ELSE script' = Append(script, c)

IdleHeap == UNCHANGED <<prec_vars, blk_vars, heap_vars, ext_vars>>

\* A dot that multiplies this by itself
RECURSIVE Local_dot_self(_, _, _, _)
Local_dot_self(x, y, v, k) ==
  IF k = 0 THEN 0
  ELSE Fl(Local_dot_self(x, y, v, k - 1) + Fl(x[v][k - 1] * x[v][k - 1]))

\* dot: n[v] after the first k local rows, n[v] += Values[v][i] * vec_values_pt[i]
RECURSIVE Local_dot(_, _, _, _)
Local_dot(x, y, v, k) ==
  IF k = 0 THEN 0
  ELSE Fl(Local_dot(x, y, v, k - 1) + Fl(x[v][k - 1] * y[v][k - 1]))

\* norm: n[v] after the first k local rows, n[v] += Values[v][i] * Values[v][i]
RECURSIVE Local_norm(_, _, _)
Local_norm(x, v, k) ==
  IF k = 0 THEN 0
  ELSE Fl(Local_norm(x, v, k - 1) + Fl(x[v][k - 1] * x[v][k - 1]))

\* MPI_Allreduce with MPI_SUM over the processes 0 .. q of entry v
RECURSIVE MPI_Allreduce(_, _, _)
MPI_Allreduce(sendbuf, v, q) ==
  IF q < 0 THEN 0
  ELSE Fl(MPI_Allreduce(sendbuf, v, q - 1) + sendbuf[q][v])

\* A norm that returns the sums of squares
Norm_result_squared(n2) == n2

\* norm: result[v] = sqrt(n[v])
Norm_result(n2) == [v \in DOMAIN n2 |-> Sqrt(n2[v])]

\* dot(vec, result) up to the all-reduce, or to the end when the distribution
\* does not span several processes
DotBegin ==
  \E q \in DOMAIN proc : \E vec \in {"a", "b"} :
     LET c == Call("dot", vec, Null)
         this == node[q].a
         n == [v \in 1 .. this.Nvector |->
                 Local_dot(this.Values, node[q][vec].Values, v - 1,
                           this.dist.nrow_local[q])]
         r == [Entered(q, c) EXCEPT !.n = n, !.n2 = n, !.status = "ok"]
     IN  /\ Begins(q, c)
         /\ proc' = [proc EXCEPT ![q] =
               IF Spans_processes(this.dist)
                 THEN [r EXCEPT !.pc = "allreduce", !.reduces = 1]
                 ELSE Returned([r EXCEPT !.result = n])]
         /\ UNCHANGED node
         /\ IdleHeap

\* norm(result) up to the all-reduce, or to the end
NormBegin ==
  \E q \in DOMAIN proc :
     LET c == Call("norm", "none", Null)
         this == node[q].a
         n == [v \in 1 .. this.Nvector |->
                 Local_norm(this.Values, v - 1, this.dist.nrow_local[q])]
         r == [Entered(q, c) EXCEPT !.n = n, !.n2 = n, !.status = "ok"]
     IN  /\ Begins(q, c)
         /\ proc' = [proc EXCEPT ![q] =
               IF Spans_processes(this.dist)
                 THEN [r EXCEPT !.pc = "allreduce", !.reduces = 1]
                 ELSE Returned([r EXCEPT !.result = Norm_result(n)])]
         /\ UNCHANGED node
         /\ IdleHeap

\* The all-reduce completes once every process of the communicator is in it:
\* each receives the sums in n2
AllreduceCompletes ==
  /\ DOMAIN proc # {}
  /\ \A q \in DOMAIN proc : proc[q].pc = "allreduce"
  /\ proc' = [q \in DOMAIN proc |->
                [proc[q] EXCEPT
                   !.pc = "reduced",
                   !.n2 = [v \in DOMAIN proc[q].n |->
                             MPI_Allreduce([w \in DOMAIN proc |-> proc[w].n],
                                           v, Cardinality(DOMAIN proc) - 1)]]]
  /\ UNCHANGED <<node, script>>
  /\ IdleHeap

\* dot after the all-reduce: n = n2, result = n
DotEnd ==
  \E q \in DOMAIN proc :
     /\ proc[q].pc = "reduced" /\ proc[q].call.name = "dot"
     /\ proc' = [proc EXCEPT ![q] =
                   Returned([proc[q] EXCEPT !.n = proc[q].n2,
                                            !.result = proc[q].n2])]
     /\ UNCHANGED <<node, script>>
     /\ IdleHeap

\* norm after the all-reduce: n = n2, result[v] = sqrt(n[v])
NormEnd ==
  \E q \in DOMAIN proc :
     /\ proc[q].pc = "reduced" /\ proc[q].call.name = "norm"
     /\ proc' = [proc EXCEPT ![q] =
                   Returned([proc[q] EXCEPT !.n = proc[q].n2,
                                            !.result = Norm_result(proc[q].n2)])]
     /\ UNCHANGED <<node, script>>
     /\ IdleHeap

\* MPI_Allgatherv into a receive buffer of nrow uninitialised entries: the
\* rows of process w are stored from displs[w] on, recvcounts[w] of them
MPI_Allgatherv(sendbuf, recvcounts, displs, nrow) ==
  [i \in 0 .. (nrow - 1) |->
     LET from == {w \in DOMAIN sendbuf :
                    displs[w] <= i /\ i < displs[w] + recvcounts[w]}
     IN  IF from = {} THEN Undefined
         ELSE LET w == CHOOSE w \in from : \A u \in from : u <= w
              IN  IF i - displs[w] \in DOMAIN sendbuf[w]
                    THEN sendbuf[w][i - displs[w]] ELSE Undefined]

\* outfile << i << " " << temp[0][i] << " " ... << "\n"
Line(temp, n_vector, i) ==
  <<i>> \o [v \in 1 .. n_vector |->
              IF i \in DOMAIN temp[v] THEN temp[v][i] ELSE Undefined]

\* The lines of output for the rows 0 .. nrow - 1
Lines(temp, n_vector, nrow) ==
  [i \in 1 .. nrow |-> Line(temp, n_vector, i - 1)]

\* The four arrays output allocates when the distribution spans processes
Temporaries == {"dist_first_row", "dist_nrow_local", "temp", "temp_value"}

\* output(outfile) up to the first all-gather; to the end (temp = Values)
\* when the distribution does not span several processes
OutputBegin ==
  \E q \in DOMAIN proc :
     LET c == Call("output", "none", Null)
         this == node[q].a
         r == [Entered(q, c) EXCEPT !.status = "ok"]
         Values == [v \in 1 .. this.Nvector |-> this.Values[v - 1]]
     IN  /\ Begins(q, c)
         /\ proc' = [proc EXCEPT ![q] =
               IF Spans_processes(this.dist)
                 THEN [r EXCEPT !.pc = "gathering",
                                !.live = Temporaries,
                                !.temp = [v \in 1 .. this.Nvector |->
                                            [i \in 0 .. (this.dist.nrow - 1)
                                               |-> Undefined]]]
                 ELSE Returned([r EXCEPT !.lines =
                                  Lines(Values, this.Nvector, this.dist.nrow)])]
         /\ UNCHANGED node
         /\ IdleHeap

\* The loop over the vectors: the process enters the all-gather of vector v
OutputGather ==
  \E q \in DOMAIN proc :
     /\ proc[q].pc = "gathering"
     /\ proc[q].v < node[q].a.Nvector
     /\ proc' = [proc EXCEPT ![q] = [@ EXCEPT !.pc = "allgatherv",
                                              !.gathers = @ + 1]]
     /\ UNCHANGED <<node, script>>
     /\ IdleHeap

\* The all-gather completes once every process is in it: each receives the
\* rows of vector v of all processes in temp[v]
AllgathervCompletes ==
  /\ DOMAIN proc # {}
  /\ \A q \in DOMAIN proc : proc[q].pc = "allgatherv"
  /\ proc' = [q \in DOMAIN proc |->
                [proc[q] EXCEPT
                   !.pc = "gathering",
                   !.v = @ + 1,
                   !.temp[proc[q].v + 1] =
                      MPI_Allgatherv(
                        [w \in DOMAIN proc |-> node[w].a.Values[proc[w].v]],
                        node[q].a.dist.nrow_local,
                        node[q].a.dist.first_row,
                        node[q].a.dist.nrow)]]
  /\ UNCHANGED <<node, script>>
  /\ IdleHeap

\* After the loop: delete[] of the two arrays of the distribution, the
\* lines, and delete[] temp[0]; delete[] temp. With no vectors temp has no
\* entry 0: reading it is undefined, and the call crashes or goes on with
\* temp_value never freed.
OutputEnd ==
  \E q \in DOMAIN proc : \E outcome \in {"fault", "ready"} :
     LET this == node[q].a
         r == [proc[q] EXCEPT
                 !.lines = Lines(proc[q].temp, this.Nvector, this.dist.nrow)]
     IN  /\ proc[q].pc = "gathering"
         /\ proc[q].v = this.Nvector
         /\ proc' = [proc EXCEPT ![q] =
               IF this.Nvector > 0
                 THEN Returned([r EXCEPT !.live = {}])
               ELSE IF outcome = "ready"
                 THEN Returned([r EXCEPT !.live = {"temp_value"}])
               ELSE [r EXCEPT !.pc = "fault",
                              !.live = {"temp", "temp_value"}]]
         /\ UNCHANGED <<node, script>>
         /\ IdleHeap

\* Process q has returned from a call of the given name
Finished(q, name) ==
  /\ proc[q].pc = "ready"
  /\ proc[q].at >= 1
  /\ proc[q].call.name = name

\* The inner product of the first k entries of x and y
RECURSIVE Inner_product(_, _, _)
Inner_product(x, y, k) ==
  IF k = 0 THEN 0
  ELSE Fl(Inner_product(x, y, k - 1) + Fl(x[k - 1] * y[k - 1]))

\* The local inner product of vector v of a with vector v of vec on process w
Local_inner_product(w, vec, v) ==
  Inner_product(node[w].a.Values[v], node[w][vec].Values[v],
                node[w].a.dist.nrow_local[w])

\* The sum of the local inner products of the processes 0 .. w
RECURSIVE Sum_over_processes(_, _, _)
Sum_over_processes(vec, v, w) ==
  IF w < 0 THEN 0
  ELSE Fl(Sum_over_processes(vec, v, w - 1) + Local_inner_product(w, vec, v))

LastProcess == Cardinality(DOMAIN proc) - 1

\* C14 as the specification states it: after dot every process holds, for
\* each vector, the sum over all processes of the local inner products, by
\* one all-reduce when the distribution is distributed over more than one
\* process and with no communication otherwise; the operands are unchanged.
C14_DotIsSumOverProcesses ==
  \A q \in DOMAIN proc :
     Finished(q, "dot") =>
        /\ Len(proc[q].result) = node[q].a.Nvector
        /\ \A v \in 1 .. node[q].a.Nvector :
              proc[q].result[v] =
                Sum_over_processes(proc[q].call.vec, v - 1, LastProcess)
        /\ proc[q].reduces =
             IF Spans_processes(node[q].a.dist) THEN 1 ELSE 0
        /\ proc[q].gathers = 0
        /\ node = proc[q].before

\* C14 as the code has it: when the distribution is distributed over more
\* than one process, result[v] is the sum over all processes of the local
\* inner products, the same on every process, by exactly one all-reduce;
\* otherwise result[v] is the process's own local inner product (every
\* process holds all rows) and there is no communication. The operands are
\* unchanged.
C14_DotCollective ==
  \A q \in DOMAIN proc :
     Finished(q, "dot") =>
        /\ Len(proc[q].result) = node[q].a.Nvector
        /\ \A v \in 1 .. node[q].a.Nvector :
              proc[q].result[v] =
                IF Spans_processes(node[q].a.dist)
                  THEN Sum_over_processes(proc[q].call.vec, v - 1, LastProcess)
                  ELSE Local_inner_product(q, proc[q].call.vec, v - 1)
        /\ proc[q].reduces =
             IF Spans_processes(node[q].a.dist) THEN 1 ELSE 0
        /\ proc[q].gathers = 0
        /\ node = proc[q].before
        /\ \A w \in DOMAIN proc :
              (Finished(w, "dot") /\ proc[w].at = proc[q].at
               /\ Spans_processes(node[q].a.dist))
                 => proc[w].result = proc[q].result

C14_Witness ==
  /\ DOMAIN proc = 0 .. 1
  /\ \A q \in DOMAIN proc :
        /\ Finished(q, "dot") /\ proc[q].call.vec = "b"
        /\ Spans_processes(node[q].a.dist)
        /\ node[q].a.dist.nrow_local[q] = 1
        /\ node[q].a.Nvector = 2
        /\ proc[q].result = <<1, 0>>
        /\ proc[q].reduces = 1

\* Process q has returned from norm, called right after dot(a, result)
Norm_after_self_dot(q) ==
  /\ Finished(q, "norm")
  /\ proc[q].at = 2
  /\ proc[q].prev.call.name = "dot"
  /\ proc[q].prev.call.vec = "a"

\* C15 as the specification states it: norm(a)[v] squared equals
\* dot(a, a)[v] (the norms of the model are in units of 1 / SqrtScale).
C15_NormSquaredIsSelfDot ==
  \A q \in DOMAIN proc :
     Norm_after_self_dot(q) =>
        /\ Len(proc[q].result) = Len(proc[q].prev.result)
        /\ \A v \in DOMAIN proc[q].result :
              proc[q].result[v] * proc[q].result[v] =
                proc[q].prev.result[v] * SqrtScale * SqrtScale

\* C15 as the code has it: norm makes the same all-reduces as dot(a, a) and
\* norm(a)[v] is the square root of dot(a, a)[v] rounded to the nearest, so
\* its square differs from dot(a, a)[v] by the rounding of the root only.
C15_NormIsRootOfSelfDot ==
  \A q \in DOMAIN proc :
     Norm_after_self_dot(q) =>
        /\ Len(proc[q].result) = Len(proc[q].prev.result)
        /\ proc[q].reduces = proc[q].prev.reduces
        /\ \A v \in DOMAIN proc[q].result :
              LET r == proc[q].result[v]
                  m == proc[q].prev.result[v] * SqrtScale * SqrtScale
              IN  r * r - r <= m /\ m <= r * r + r

C15_Witness ==
  /\ DOMAIN proc = 0 .. 1
  /\ \A q \in DOMAIN proc :
        /\ Norm_after_self_dot(q)
        /\ Spans_processes(node[q].a.dist)
        /\ proc[q].prev.result = <<2>>
        /\ proc[q].result = <<6>>
        /\ proc[q].reduces = 1

\* The entry of vector v of a at global row i, as process q sees it
Global_entry(q, v, i) ==
  LET D == node[q].a.dist
  IN  IF ~D.distributed THEN node[q].a.Values[v][i]
      ELSE LET w == CHOOSE w \in DOMAIN node :
                       D.first_row[w] <= i
                       /\ i < D.first_row[w] + D.nrow_local[w]
           IN  node[w].a.Values[v][i - D.first_row[w]]

\* C18: output writes one line per global row 0 .. N - 1 in ascending order,
\* each the row index followed by the entries of the k vectors at that row;
\* the call returns, the object is as it was, and every array the call
\* allocated has been freed.
C18_Output ==
  \A q \in DOMAIN proc :
     (proc[q].call.name = "output" /\ proc[q].pc \in {"ready", "fault"}) =>
        /\ proc[q].pc = "ready"
        /\ Len(proc[q].lines) = node[q].a.dist.nrow
        /\ \A i \in 1 .. node[q].a.dist.nrow :
              proc[q].lines[i] =
                <<i - 1>> \o [v \in 1 .. node[q].a.Nvector |->
                               Global_entry(q, v - 1, i - 1)]
        /\ proc[q].live = {}
        /\ node = proc[q].before

\* The distributions handed to redistribute on a multivector distributed by
\* D: every distribution of the same rows on the same communicator, one on
\* another communicator and one of another number of rows
RedistributeChoices(D) ==
  {LinearAlgebraDistribution(D.comm, D.nproc, D.nrow, distributed, cut) :
     distributed \in {x \in BOOLEAN : x => D.nproc > 1},
     cut \in Cuts(D.nproc, D.nrow)}
  \cup {[D EXCEPT !.comm = "other"]}
  \cup {LinearAlgebraDistribution(D.comm, D.nproc, D.nrow + 1, FALSE,
                                  [q \in 1 .. (D.nproc - 1) |-> 0])}

\* An exchange in which every process takes its new rows from row 0 on
Redistributed_unshifted(nd, q, dist) ==
  LET old == nd[q].a
      entry(v, r) ==
        IF ~old.dist.distributed THEN old.Values[v][r]
        ELSE LET w == CHOOSE w \in DOMAIN nd :
                         old.dist.first_row[w] <= r
                         /\ r < old.dist.first_row[w] + old.dist.nrow_local[w]
             IN  nd[w].a.Values[v][r - old.dist.first_row[w]]
  IN  [dist |-> dist, Nvector |-> old.Nvector,
       Values |-> [v \in DOMAIN old.Values |->
                     [i \in 0 .. (dist.nrow_local[q] - 1) |-> entry(v, i)]]]

\* The multivector a of process q after the exchange of redistribute(dist):
\* it holds the entries of the global rows dist gives to q, each taken from
\* the process that held the row (from q itself when every process held all)
Redistributed(nd, q, dist) ==
  LET old == nd[q].a
      entry(v, r) ==
        IF ~old.dist.distributed THEN old.Values[v][r]
        ELSE LET w == CHOOSE w \in DOMAIN nd :
                         old.dist.first_row[w] <= r
                         /\ r < old.dist.first_row[w] + old.dist.nrow_local[w]
             IN  nd[w].a.Values[v][r - old.dist.first_row[w]]
  IN  [dist |-> dist, Nvector |-> old.Nvector,
       Values |-> [v \in DOMAIN old.Values |->
                     [i \in 0 .. (dist.nrow_local[q] - 1) |->
                        entry(v, dist.first_row[q] + i)]]]

\* redistribute(dist_pt) needs the same number of global rows and the same
\* communicator
Redistribute_rejects(old, dist) ==
  dist.nrow # old.nrow \/ dist.comm # old.comm

\* redistribute(dist_pt) up to the exchange: rejected, or nothing to do on
\* one process, or the process enters the exchange
RedistributeBegin ==
  \E q \in DOMAIN proc : \E dist \in RedistributeChoices(node[q].a.dist) :
     LET c == Call("redistribute", "none", dist)
         r == Entered(q, c)
     IN  /\ Begins(q, c)
         /\ proc' = [proc EXCEPT ![q] =
               IF Redistribute_rejects(node[q].a.dist, dist)
                 THEN Returned([r EXCEPT !.status = "error"])
               ELSE IF dist.nproc = 1
                 THEN Returned([r EXCEPT !.status = "ok"])
               ELSE [r EXCEPT !.pc = "exchange"]]
         /\ UNCHANGED node
         /\ IdleHeap

\* The exchange completes once every process is in it
ExchangeCompletes ==
  /\ DOMAIN proc # {}
  /\ \A q \in DOMAIN proc : proc[q].pc = "exchange"
  /\ node' = [q \in DOMAIN node |->
                [node[q] EXCEPT !.a = Redistributed(node, q, proc[q].call.dist)]]
  /\ proc' = [q \in DOMAIN proc |->
                Returned([proc[q] EXCEPT !.status = "ok"])]
  /\ UNCHANGED script
  /\ IdleHeap

\* The entry of vector v of a at global row r in the state nd, for process q
Entry_in(nd, q, v, r) ==
  LET D == nd[q].a.dist
      holders == {w \in DOMAIN nd :
                    D.first_row[w] <= r /\ r < D.first_row[w] + D.nrow_local[w]}
  IN  IF ~D.distributed THEN nd[q].a.Values[v][r]
      ELSE nd[CHOOSE w \in holders : TRUE].a.Values[v][
             r - D.first_row[CHOOSE w \in holders : TRUE]]

Distributions_in_use ==
  {node[q].a.dist : q \in DOMAIN node}
  \cup {script[j].dist : j \in {j \in DOMAIN script :
                                  script[j].name = "redistribute"}}

RECURSIVE Sum_nrow_local(_, _)
Sum_nrow_local(D, q) ==
  IF q < 0 THEN 0 ELSE Sum_nrow_local(D, q - 1) + D.nrow_local[q]

\* The local row counts sum to nrow and every global row is in the range of
\* exactly one process
Partitions_rows(D) ==
  /\ Sum_nrow_local(D, D.nproc - 1) = D.nrow
  /\ \A r \in 0 .. (D.nrow - 1) :
        Cardinality({q \in 0 .. (D.nproc - 1) :
                       D.first_row[q] <= r
                       /\ r < D.first_row[q] + D.nrow_local[q]}) = 1

\* C20 as the specification states it: for every distribution of N global
\* rows over P processes the local row counts sum to N and the ranges
\* [first_row(p), first_row(p) + nrow_local(p)) partition 0 .. N - 1.
C20_EveryDistributionPartitions ==
  \A D \in Distributions_in_use : Partitions_rows(D)

\* C20 as the code uses distributions: the local row counts sum to N and the
\* ranges partition 0 .. N - 1 for every distribution that is distributed
\* and for every distribution on one process; with a distribution that is
\* not distributed every one of P > 1 processes holds all N rows.
C20_DistributedPartitions ==
  \A D \in Distributions_in_use :
     /\ (D.distributed \/ D.nproc = 1) => Partitions_rows(D)
     /\ ~D.distributed =>
           \A q \in 0 .. (D.nproc - 1) :
              D.first_row[q] = 0 /\ D.nrow_local[q] = D.nrow

C20_Witness ==
  /\ DOMAIN proc = 0 .. 1
  /\ \A q \in DOMAIN proc :
        /\ Finished(q, "redistribute") /\ proc[q].status = "ok"
        /\ node[q].a.dist.distributed
        /\ node[q].a.dist.nrow = 2
        /\ node[q].a.dist.first_row = [w \in 0 .. 1 |-> w]
        /\ node[q].a.dist.nrow_local = [w \in 0 .. 1 |-> 1]
        /\ ~proc[q].before[q].a.dist.distributed

(***************************************************************************)
(* DoubleMultiVector: borrowed storage, leaks and copies.                  *)
(***************************************************************************)
\* The block the first pointer of object o leads into (delete[] Values[0]
\* frees it), or 0
First_block(o) ==
  IF mv[o].Values = 0 THEN 0
  ELSE IF Len(LookupOf(o).ptr) = 0 THEN 0
  ELSE LookupOf(o).ptr[1].blk

\* The call recorded in r is a construction, a build, an assignment or a
\* clear of object o
Constructs_or_releases(r, o) ==
  /\ r.op \in {"construct_columns", "build", "shallow_build",
               "shallow_build_from", "build_from", "=", "clear"}
  /\ o = (IF r.op = "construct_columns" THEN r.view.obj ELSE r.obj)

\* C25: a shallow construction, a shallow_build, a build, an assignment or a
\* clear of a multivector never frees storage that another multivector
\* allocated: every live block of another owner stays as it is, and no
\* pointer into such a block is handed to delete[].
C25_ViewNeverFreesSource ==
  [][\A o \in Objects :
        (mv_fault = "none" /\ Constructs_or_releases(mv_ret', o)) =>
           /\ \A b \in DOMAIN storage_blocks :
                 (storage_blocks[b].live /\ storage_blocks[b].owner # o) =>
                    storage_blocks'[b] = storage_blocks[b]
           /\ (/\ First_block(o) # 0
               /\ storage_blocks[First_block(o)].owner # o
               /\ storage_blocks[First_block(o)].live) =>
                  mv_fault' \notin {"invalid_free", "double_free"}]_vars

\* Block b can still be freed: it is the block the first pointer of an object
\* that owns its storage leads to, at the start of the block
Freeable(b) ==
  \E o \in Objects :
     /\ mv[o].Internal_values
     /\ First_block(o) = b
     /\ LookupOf(o).ptr[1].off = 0

\* C26: no storage is leaked and none is freed twice: every double[] block
\* and every double*[] lookup array that is still allocated is held by a
\* multivector whose clear() will free it, also after shallow_build(old_vector)
\* on a multivector that owned its storage.
C26_NoLeakNoDoubleFree ==
  /\ mv_fault # "double_free"
  /\ MVRunning =>
        /\ \A b \in DOMAIN storage_blocks :
              storage_blocks[b].live => Freeable(b)
        /\ \A l \in DOMAIN lookup_arrays :
              lookup_arrays[l].live => \E o \in Objects : mv[o].Values = l

\* Object o shows every entry of object old
Same_entries(o, old) ==
  \A v \in 0 .. (mv[old].Nvector - 1) :
     \A i \in 0 .. (nrow_local(mv[old]) - 1) :
        MV_read(MVState, o, v, i) = MV_read(MVState, old, v, i)

\* C27: after a = b or a.build(b) with b built and populated, a has b's
\* vector count, distribution and entries in storage of its own; after
\* a.shallow_build(b), a has b's vector count and distribution and its
\* pointers are b's; whatever operator== answered.
C27_CopyPostcondition ==
  \A o \in Objects : \A old \in Objects \ {o} :
     (/\ mv_ret.op \in {"=", "build_from", "shallow_build_from"}
      /\ mv_ret.obj = o /\ mv_ret.old = old
      /\ mv[old].Built /\ MV_readable(MVState, old)) =>
        /\ MVRunning
        /\ mv[o].Built
        /\ mv[o].Nvector = mv[old].Nvector
        /\ mv[o].dist = mv[old].dist
        /\ mv_ret.op \in {"=", "build_from"} =>
              /\ Same_entries(o, old)
              /\ mv[o].Internal_values
              /\ Blocks_of(MVState, o) \cap Blocks_of(MVState, old) = {}
        /\ mv_ret.op = "shallow_build_from" =>
              /\ ~mv[o].Internal_values
              /\ LookupOf(o).ptr = LookupOf(old).ptr

\* C28: between two built multivectors with the same distribution and
\* different vector counts, operator== answers false, and +=, -= and dot are
\* rejected without reading a vector the operand does not have.
C28_VectorCountAgreement ==
  [][\A o \in Objects : \A vec \in Objects :
        (/\ MVRunning
         /\ mv[o].Built /\ mv[vec].Built
         /\ mv[o].dist = mv[vec].dist
         /\ mv[o].Nvector # mv[vec].Nvector) =>
           /\ MV_equal(MVState, o, vec) = {FALSE}
           /\ (/\ mv_ret'.op \in {"+=", "-=", "dot"}
               /\ mv_ret'.obj = o
               /\ mv_ret'.vec = vec) =>
                  /\ mv_ret'.status = "error"
                  /\ mv_fault' = "none"]_vars

\* C29: in every state built() holds exactly when Values is non-null and the
\* distribution is built; every clear() runs to its end and leaves the object
\* unbuilt, with null Values and a cleared distribution; and a clear() of an
\* object with null Values changes nothing.
C29_StateInvariant ==
  [][/\ \A o \in Objects :
          /\ mv[o].Built <=> (mv[o].Values # 0 /\ mv[o].dist.built)
          /\ mv'[o].Built <=> (mv'[o].Values # 0 /\ mv'[o].dist.built)
     /\ (mv_ret'.op = "clear") =>
          LET o == mv_ret'.obj
          IN  /\ mv_fault' = "none"
              /\ ~mv'[o].Built
              /\ mv'[o].Values = 0
              /\ mv'[o].dist = Unbuilt
              /\ (mv[o].Values = 0) =>
                    UNCHANGED <<mv, lookup_arrays, storage_blocks>>]_vars

(***************************************************************************)
(* MumpsSolver and NewMumpsPreconditioner.  mumps_solver.h declares the    *)
(* solver's functions and defines the inline ones; the functions that are  *)
(* only declared there follow the contract of the external direct-solver   *)
(* adapter.                                                                *)
(***************************************************************************)
\* The caller's matrices
MatrixNames == {"J", "K"}

\* A caller's assembled matrix of order n
Assembled_matrix(A, n, distributable) ==
  [built |-> TRUE, n |-> n, values |-> A, distributable |-> distributable]

\* matrix_pt->clean_up_memory(): the matrix's storage is wiped
Matrix_clean_up_memory(M) == [M EXCEPT !.built = FALSE, !.n = 0, !.values = <<>>]

\* The right-hand sides handed to solve and resolve
RhsChoices(n) == [Blocks(n) -> 0 .. 1]

\* MumpsSolver(): nothing initialised, the matrix data is kept
MumpsSolver ==
  [Mumps_is_initialised |-> FALSE, Delete_matrix_data |-> FALSE,
   Enable_resolve |-> FALSE,
   Irn_loc |-> <<>>, Jcn_loc |-> <<>>, A_loc |-> <<>>, n |-> 0, alive |-> TRUE]

\* No matrix has been factorised
NotFactorised == [matrix |-> "none", n |-> 0, values |-> <<>>]

\* The external solver: no instance, nothing done yet
NoInstance ==
  [live |-> FALSE, factors |-> Null,
   n_init |-> 0, n_end |-> 0, n_analysis |-> 0, n_factorisation |-> 0]

enable_delete_matrix_data(s) == [s EXCEPT !.Delete_matrix_data = TRUE]

disable_delete_matrix_data(s) == [s EXCEPT !.Delete_matrix_data = FALSE]

\* LinearSolver::enable_resolve
enable_resolve(s) == [s EXCEPT !.Enable_resolve = TRUE]

\* The nonzero entries of A in row-major order, with the 1-based row and
\* column numbers of the external solver
RECURSIVE Triplets(_, _, _)
Triplets(A, n, k) ==
  IF k = 0 THEN <<>>
  ELSE LET i == (k - 1) \div n
           j == (k - 1) % n
           rest == Triplets(A, n, k - 1)
       IN  IF A[<<i, j>>] = 0 THEN rest
           ELSE Append(rest, [irn |-> i + 1, jcn |-> j + 1, a |-> A[<<i, j>>]])

\* The matrix the external solver assembles from the triplet arrays
Assembled(s) ==
  [ij \in Grid(s.n) |->
     LET hits == {k \in 1 .. Len(s.A_loc) :
                    s.Irn_loc[k] = ij[1] + 1 /\ s.Jcn_loc[k] = ij[2] + 1}
     IN  SumFun([k \in hits |-> s.A_loc[k]], hits)]

\* No result vector has been written
NoResult == [den |-> 0, num |-> <<>>]

\* The state the functions of the solver act on
MumpsState == [solver |-> solver, mumps |-> mumps, matrices |-> matrices,
               factorised |-> factorised, misuse |-> ms_misuse,
               status |-> "ok", result |-> NoResult]

initialise_mumps(W) ==
  [W EXCEPT !.mumps.live = TRUE, !.mumps.n_init = @ + 1,
            !.solver.Mumps_is_initialised = TRUE]

shutdown_mumps(W) ==
  [W EXCEPT !.mumps.live = FALSE, !.mumps.factors = Null,
            !.mumps.n_end = @ + 1,
            !.solver.Mumps_is_initialised = FALSE]

\* A clean_up_memory that shuts the external solver down whatever the flag says
Mumps_clean_up_unguarded(W) ==
  LET W1 == shutdown_mumps(W)
  IN  [W1 EXCEPT !.solver.Irn_loc = <<>>, !.solver.Jcn_loc = <<>>,
                 !.solver.A_loc = <<>>, !.solver.n = 0, !.factorised = NotFactorised]

\* MumpsSolver::clean_up_memory
Mumps_clean_up_memory(W) ==
  IF W.solver.Mumps_is_initialised
  THEN LET W1 == shutdown_mumps(W)
       IN  [W1 EXCEPT !.solver.Irn_loc = <<>>, !.solver.Jcn_loc = <<>>,
                      !.solver.A_loc = <<>>, !.solver.n = 0,
                      !.factorised = NotFactorised]
  ELSE W

\* A factorise that wipes the caller's matrix whatever the flag says
Mumps_factorise_consumes(W, m) ==
  LET M == W.matrices[m]
      t == Triplets(M.values, M.n, M.n * M.n)
      W1 == initialise_mumps(W)
      s == [W1.solver EXCEPT
              !.n = M.n,
              !.Irn_loc = [k \in 1 .. Len(t) |-> t[k].irn],
              !.Jcn_loc = [k \in 1 .. Len(t) |-> t[k].jcn],
              !.A_loc = [k \in 1 .. Len(t) |-> t[k].a]]
  IN  [W1 EXCEPT !.solver = s,
                 !.mumps.n_analysis = @ + 1,
                 !.mumps.n_factorisation = @ + 1,
                 !.mumps.factors = Assembled(s),
                 !.factorised = [matrix |-> m, n |-> M.n, values |-> M.values],
                 !.matrices[m] = Matrix_clean_up_memory(M)]

\* MumpsSolver::factorise(matrix_pt)
Mumps_factorise(W, m) ==
  IF W.solver.Mumps_is_initialised
  THEN [W EXCEPT !.misuse = "factorise_before_clean_up_memory",
                 !.status = "undefined"]
  ELSE LET M == W.matrices[m]
           t == Triplets(M.values, M.n, M.n * M.n)
           W1 == initialise_mumps(W)
           s == [W1.solver EXCEPT
                   !.n = M.n,
                   !.Irn_loc = [k \in 1 .. Len(t) |-> t[k].irn],
                   !.Jcn_loc = [k \in 1 .. Len(t) |-> t[k].jcn],
                   !.A_loc = [k \in 1 .. Len(t) |-> t[k].a]]
       IN  [W1 EXCEPT !.solver = s,
                      !.mumps.n_analysis = @ + 1,
                      !.mumps.n_factorisation = @ + 1,
                      !.mumps.factors = Assembled(s),
                      !.factorised =
                         [matrix |-> m, n |-> M.n, values |-> M.values],
                      !.matrices[m] =
                         IF s.Delete_matrix_data
                         THEN Matrix_clean_up_memory(M) ELSE M]

\* MumpsSolver::backsub(rhs, result)
Mumps_backsub(W, rhs) ==
  [W EXCEPT !.result = Exact_direct_solve(W.mumps.factors, W.solver.n, rhs)]

\* A resolve that does the back-substitution whatever the state of the solver
Mumps_resolve_unchecked(W, rhs) ==
  [W EXCEPT !.result =
     IF ~W.mumps.live THEN [den |-> 1, num |-> rhs]
     ELSE Exact_direct_solve(W.mumps.factors, W.solver.n, rhs)]

\* A resolve that analyses and factorises again before the back-substitution
Mumps_resolve_refactorises(W, rhs) ==
  IF ~W.solver.Mumps_is_initialised THEN [W EXCEPT !.status = "error"]
  ELSE Mumps_backsub([W EXCEPT !.mumps.n_analysis = @ + 1,
                               !.mumps.n_factorisation = @ + 1], rhs)

\* MumpsSolver::resolve(rhs, result)
Mumps_resolve(W, rhs) ==
  IF ~W.solver.Mumps_is_initialised THEN [W EXCEPT !.status = "error"]
  ELSE Mumps_backsub(W, rhs)

\* MumpsSolver::solve(matrix_pt, rhs, result)
Mumps_solve(W, m, rhs) ==
  LET W1 == Mumps_factorise(W, m)
  IN  IF W1.misuse # "none" THEN W1 ELSE Mumps_backsub(W1, rhs)

\* MumpsSolver::disable_resolve
Mumps_disable_resolve(W) ==
  Mumps_clean_up_memory([W EXCEPT !.solver.Enable_resolve = FALSE])

\* MumpsSolver::~MumpsSolver
Mumps_destroy(W) ==
  [Mumps_clean_up_memory(W) EXCEPT !.solver.alive = FALSE]

\* NewMumpsPreconditioner::setup
NewMumps_setup(W, m) ==
  IF W.matrices[m].distributable THEN Mumps_factorise(W, m)
  ELSE [W EXCEPT !.status = "error"]

\* NewMumpsPreconditioner::preconditioner_solve
NewMumps_preconditioner_solve(W, r) == Mumps_resolve(W, r)

\* NewMumpsPreconditioner::clean_up_memory
NewMumps_clean_up_memory(W) == Mumps_clean_up_memory(W)

\* A call without arguments
NoArgs == [matrix |-> "none"]

\* The solver can be used: it is alive and its protocol has been kept
MumpsLive == solver.alive /\ ms_misuse = "none"

\* The state before a call, as the record of the call keeps it
MumpsBefore == [solver |-> solver, mumps |-> mumps, matrices |-> matrices]

\* The call before this one, as the record of the call keeps it
MumpsPrevious ==
  [op |-> ms_ret.op,
   status |-> IF ms_ret.op = "construct" THEN "ok" ELSE ms_ret.status,
   rhs |-> IF ms_ret.op \in {"solve", "resolve"} THEN ms_ret.args.rhs ELSE <<>>]

\* The call `name` made through `via` leaves W
MumpsBecomes(W, name, via, args) ==
  /\ solver' = W.solver
  /\ mumps' = W.mumps
  /\ matrices' = W.matrices
  /\ factorised' = W.factorised
  /\ ms_misuse' = W.misuse
  /\ ms_ret' = [op |-> name, via |-> via, args |-> args, status |-> W.status,
                result |-> W.result, before |-> MumpsBefore,
                prev |-> MumpsPrevious]
  /\ UNCHANGED <<prec_vars, blk_vars, mv_vars, mesh_vars>>

MumpsEnableDeleteMatrixData ==
  /\ MumpsLive
  /\ MumpsBecomes([MumpsState EXCEPT !.solver = enable_delete_matrix_data(@)],
                  "enable_delete_matrix_data", "solver", NoArgs)

MumpsDisableDeleteMatrixData ==
  /\ MumpsLive
  /\ MumpsBecomes([MumpsState EXCEPT !.solver = disable_delete_matrix_data(@)],
                  "disable_delete_matrix_data", "solver", NoArgs)

MumpsEnableResolve ==
  /\ MumpsLive
  /\ MumpsBecomes([MumpsState EXCEPT !.solver = enable_resolve(@)],
                  "enable_resolve", "solver", NoArgs)

MumpsDisableResolve ==
  /\ MumpsLive
  /\ MumpsBecomes(Mumps_disable_resolve(MumpsState),
                  "disable_resolve", "solver", NoArgs)

MumpsFactorise ==
  /\ MumpsLive
  /\ mumps.n_init < MaxInitialise
  /\ \E m \in MatrixNames :
        /\ matrices[m].built
        /\ MumpsBecomes(Mumps_factorise(MumpsState, m),
                        "factorise", "solver", [matrix |-> m])

MumpsSolve ==
  /\ MumpsLive
  /\ mumps.n_init < MaxInitialise
  /\ \E m \in MatrixNames :
        /\ matrices[m].built
        /\ \E rhs \in RhsChoices(matrices[m].n) :
              MumpsBecomes(Mumps_solve(MumpsState, m, rhs),
                           "solve", "solver", [matrix |-> m, rhs |-> rhs])

MumpsResolve ==
  /\ MumpsLive
  /\ \E rhs \in RhsChoices(MumpsOrder) :
        MumpsBecomes(Mumps_resolve(MumpsState, rhs),
                     "resolve", "solver", [rhs |-> rhs])

MumpsCleanUpMemory ==
  /\ MumpsLive
  /\ MumpsBecomes(Mumps_clean_up_memory(MumpsState),
                  "clean_up_memory", "solver", NoArgs)

MumpsDestroy ==
  /\ MumpsLive
  /\ MumpsBecomes(Mumps_destroy(MumpsState), "destroy", "solver", NoArgs)

NewMumpsSetup ==
  /\ MumpsLive
  /\ mumps.n_init < MaxInitialise
  /\ \E m \in MatrixNames :
        /\ matrices[m].built
        /\ MumpsBecomes(NewMumps_setup(MumpsState, m),
                        "factorise", "preconditioner", [matrix |-> m])

NewMumpsPreconditionerSolve ==
  /\ MumpsLive
  /\ \E r \in RhsChoices(MumpsOrder) :
        MumpsBecomes(NewMumps_preconditioner_solve(MumpsState, r),
                     "resolve", "preconditioner", [rhs |-> r])

NewMumpsCleanUpMemory ==
  /\ MumpsLive
  /\ MumpsBecomes(NewMumps_clean_up_memory(MumpsState),
                  "clean_up_memory", "preconditioner", NoArgs)

Solves(A, n, x, rhs) ==
  /\ x.den # 0
  /\ \A i \in Blocks(n) :
        SumFun([j \in Blocks(n) |-> A[<<i, j>>] * x.num[j]], Blocks(n))
          = x.den * rhs[i]

\* C22: a successful resolve returns the solution of the factorised matrix for
\* its own right-hand side, and leaves the solver, the stored factorisation
\* and the numbers of analyses and factorisations as they were; every
\* initialisation has had exactly one analysis and one factorisation.
C22_FactorisationReuse ==
  /\ mumps.n_analysis = mumps.n_init
  /\ mumps.n_factorisation = mumps.n_init
  /\ (ms_ret.op = "resolve" /\ ms_ret.status = "ok") =>
        /\ Solves(factorised.values, factorised.n, ms_ret.result,
                  ms_ret.args.rhs)
        /\ mumps = ms_ret.before.mumps
        /\ solver = ms_ret.before.solver

C22_Witness ==
  /\ ms_ret.op = "resolve" /\ ms_ret.status = "ok"
  /\ ms_ret.prev.op = "resolve" /\ ms_ret.prev.status = "ok"
  /\ ms_ret.prev.rhs # ms_ret.args.rhs
  /\ mumps.n_factorisation = 1

\* The solver holds nothing: no instance of the external solver, no triplets
Released(s, x) ==
  /\ ~s.Mumps_is_initialised
  /\ s.Irn_loc = <<>> /\ s.Jcn_loc = <<>> /\ s.A_loc = <<>>
  /\ ~x.live
  /\ x.factors = Null

\* C23: clean_up_memory, the destructor and disable_resolve leave the solver
\* released; on a released solver they change nothing; the external solver is
\* shut down once per initialisation, never more; a factorise that follows
\* starts from the released state.
C23_ReleaseProtocol ==
  /\ mumps.n_end <= mumps.n_init
  /\ mumps.n_init - mumps.n_end = (IF mumps.live THEN 1 ELSE 0)
  /\ solver.Mumps_is_initialised = mumps.live
  /\ ms_ret.op \in {"clean_up_memory", "destroy", "disable_resolve"} =>
        /\ Released(solver, mumps)
        /\ ~ms_ret.before.mumps.live => mumps = ms_ret.before.mumps
  /\ (ms_ret.op \in {"factorise", "solve"} /\ ms_ret.status = "ok") =>
        /\ Released(ms_ret.before.solver, ms_ret.before.mumps)
        /\ mumps.factors = factorised.values

C23_Witness ==
  /\ ms_ret.op = "factorise" /\ ms_ret.status = "ok"
  /\ ms_ret.prev.op \in {"clean_up_memory", "disable_resolve"}
  /\ mumps.n_init = 2 /\ mumps.n_end = 1
  /\ ms_ret.args.matrix = "K"

\* C24: Delete_matrix_data is false after construction; factorise and solve
\* wipe the matrix they are given exactly when the flag is set, and no call
\* touches any other matrix.
C24_DeleteMatrixDataPolicy ==
  /\ ms_ret.op = "construct" => ~solver.Delete_matrix_data
  /\ ms_ret.op # "construct" =>
        \A m \in MatrixNames :
           matrices[m] =
             IF /\ ms_ret.op \in {"factorise", "solve"}
                /\ ms_ret.status = "ok"
                /\ ms_ret.args.matrix = m
                /\ ms_ret.before.solver.Delete_matrix_data
             THEN Matrix_clean_up_memory(ms_ret.before.matrices[m])
             ELSE ms_ret.before.matrices[m]

C24_Witness ==
  /\ ms_ret.op = "solve" /\ ms_ret.status = "ok"
  /\ ms_ret.before.solver.Delete_matrix_data
  /\ ~matrices[ms_ret.args.matrix].built
  /\ ms_ret.before.matrices[ms_ret.args.matrix].built

(***************************************************************************)
(* SimpleCubicMesh: the element counts and their accessors.                *)
(***************************************************************************)
\* SimpleCubicMesh(nx, ny, nz, ...): the member initialisers of either
\* constructor
SimpleCubicMesh(n_x, n_y, n_z) == [Nx |-> n_x, Ny |-> n_y, Nz |-> n_z]

nx(m) == m.Nx

ny(m) == m.Ny

nz(m) == m.Nx

\* The element counts handed to the constructors
ElementCounts == 1 .. MaxCount

MeshConstruct ==
  /\ \E n_x \in ElementCounts, n_y \in ElementCounts, n_z \in ElementCounts :
        /\ mesh' = SimpleCubicMesh(n_x, n_y, n_z)
        /\ mesh_ret' = [op |-> "construct", args |-> <<n_x, n_y, n_z>>]
  /\ UNCHANGED <<prec_vars, blk_vars, mv_vars, ms_vars>>

MeshNx ==
  /\ mesh_ret' = [op |-> "nx", result |-> nx(mesh)]
  /\ UNCHANGED <<mesh, prec_vars, blk_vars, mv_vars, ms_vars>>

MeshNy ==
  /\ mesh_ret' = [op |-> "ny", result |-> ny(mesh)]
  /\ UNCHANGED <<mesh, prec_vars, blk_vars, mv_vars, ms_vars>>

MeshNz ==
  /\ mesh_ret' = [op |-> "nz", result |-> nz(mesh)]
  /\ UNCHANGED <<mesh, prec_vars, blk_vars, mv_vars, ms_vars>>

\* C30: each accessor returns the element count the mesh was constructed with
\* for its own direction: nx() the count in x, ny() the count in y, nz() the
\* count in z.
C30_AccessorsReturnOwnCount ==
  /\ mesh_ret.op = "nx" => mesh_ret.result = mesh.Nx
  /\ mesh_ret.op = "ny" => mesh_ret.result = mesh.Ny
  /\ mesh_ret.op = "nz" => mesh_ret.result = mesh.Nz

(***************************************************************************)
(* Specifications.                                                         *)
(***************************************************************************)
InitPrecCommon ==
  /\ Off_diagonal_matrix_vector_products = EmptyDenseMatrix
  /\ base = EmptyBase
  /\ live_ops = {}
  /\ double_free = FALSE
  /\ n_setup = 0
  /\ fresh = TRUE
  /\ alive = TRUE
  /\ ret = Void("construct")

\* The solver and the caller's matrices before the first call
IdleSolver ==
  /\ solver = MumpsSolver
  /\ mumps = NoInstance
  /\ matrices = [m \in MatrixNames |->
                   Assembled_matrix(IF m = "J" THEN TriDiag(MumpsOrder)
                                    ELSE DiagPlusOnes(MumpsOrder),
                                    MumpsOrder, TRUE)]
  /\ factorised = NotFactorised
  /\ ms_misuse = "none"
  /\ ms_ret = Void("construct")

\* A mesh of one element
IdleMesh ==
  /\ mesh = SimpleCubicMesh(1, 1, 1)
  /\ mesh_ret = [op |-> "construct", args |-> <<1, 1, 1>>]

\* The solver and the mesh at rest, for the specifications of the other
\* components
IdleExternal == IdleSolver /\ IdleMesh

\* The preconditioners at rest, for the specifications of the other components
IdlePrec ==
  /\ kind = "banded"
  /\ prec = BandedBlockTriangularPreconditioner
  /\ sys = DefaultSys
  /\ InitPrecCommon

\* The block structure at rest
IdleBlock ==
  /\ pinned = [n \in Nodes |-> {}]
  /\ block_setup = NotBuilt
  /\ global_vector = [g \in Blocks(Ndof(pinned)) |-> g + 1]
  /\ block_vectors = NotBuilt
  /\ returned = NotBuilt

\* Two default-constructed multivectors and an empty heap
InitHeap ==
  /\ mv = [o \in Objects |-> DoubleMultiVector]
  /\ lookup_arrays = <<>>
  /\ storage_blocks = <<>>
  /\ mv_fault = "none"
  /\ Internal_doublevector = [o \in Objects |-> <<>>]
  /\ mv_ret = Void("construct")
  /\ calls = 0

\* No processes: the run is on the objects of one process only
IdleCollective ==
  /\ node = <<>>
  /\ proc = <<>>
  /\ script = <<>>

\* ... in a build without PARANOID and RANGE_CHECKING
InitMV == InitHeap /\ checked = {} /\ IdleCollective

InitPrec ==
  /\ kind \in {"banded", "exact"}
  /\ prec = IF kind = "banded" THEN BandedBlockTriangularPreconditioner
            ELSE ExactDGPBlockPreconditioner
  /\ sys = DefaultSys
  /\ InitPrecCommon
  /\ IdleBlock
  /\ InitMV
  /\ IdleExternal

InitExact ==
  /\ kind = "exact"
  /\ prec = ExactDGPBlockPreconditioner
  /\ sys \in SysChoices
  /\ InitPrecCommon
  /\ IdleBlock
  /\ InitMV
  /\ IdleExternal

InitBlock ==
  /\ pinned \in [Nodes -> PinChoices]
  /\ block_setup = NotBuilt
  /\ global_vector \in VectorChoices(Ndof(pinned))
  /\ block_vectors = NotBuilt
  /\ returned = NotBuilt
  /\ IdlePrec
  /\ InitMV
  /\ IdleExternal

InitMultiVector == IdlePrec /\ IdleBlock /\ InitMV /\ IdleExternal

NextPrec == NextBanded \/ NextExact

NextBlock ==
  \/ BlockSetupFromElements
  \/ BlockSetupFromCaller
  \/ GetBlockVectors
  \/ ReturnBlockVectors

\* Both preconditioner variants, on one fixed linear system
SpecPrec == InitPrec /\ [][NextPrec]_vars

\* The exact preconditioner on every linear system of SysChoices
SpecExact == InitExact /\ [][NextExact]_vars

\* The block structure manager on every pinning of the mesh
SpecBlock == InitBlock /\ [][NextBlock]_vars

\* Two multivectors sharing one heap
SpecMV == InitMultiVector /\ [][NextMV]_vars

NextView ==
  \/ MVBuild
  \/ MVConstructFromColumns
  \/ MVWrite
  \/ MVClear

\* Construction of one multivector from another, and element access
SpecView == InitMultiVector /\ [][NextView]_vars

\* The checked build (PARANOID, RANGE_CHECKING) or the unchecked one
InitArith ==
  /\ IdlePrec /\ IdleBlock /\ InitHeap /\ IdleCollective /\ IdleExternal
  /\ checked \in {{}, {"PARANOID", "RANGE_CHECKING"}}

NextArith ==
  \/ MVBuild
  \/ MVPlusEq
  \/ MVMinusEq
  \/ MVTimesEq
  \/ MVDot
  \/ MVNorm

\* Arithmetic on multivectors, on one process
SpecArith == InitArith /\ [][NextArith]_vars

NextFacade ==
  \/ MVConstruct
  \/ MVAssign
  \/ MVBuild
  \/ MVShallowBuild
  \/ MVClear

\* Constructors, builds, assignment and clear, with the DoubleVectors
SpecFacade == InitMultiVector /\ [][NextFacade]_vars

NextAccess ==
  \/ MVBuild
  \/ MVClear
  \/ MVAccess

\* Element access in the checked and in the unchecked build
SpecAccess == InitArith /\ [][NextAccess]_vars

\* The processes of the world communicator, each with its rows of the
\* multivectors a and b, built on one distribution with the same vector count
\* (and, for same, with the same entries)
InitWorld(same) ==
  \E nproc \in 1 .. MaxProc : \E nrow \in 0 .. MaxGlobalRow :
  \E distributed \in BOOLEAN : \E n_vector \in 0 .. MaxVec :
  \E cut \in Cuts(nproc, nrow) :
  \E ga \in GlobalValues(n_vector, nrow) :
  \E gb \in GlobalValues(n_vector, nrow) :
     LET D == LinearAlgebraDistribution("world", nproc, nrow, distributed, cut)
     IN  /\ nproc = 1 => ~distributed
         /\ same => gb = ga
         /\ node = [q \in 0 .. (nproc - 1) |->
                      [a |-> Multivector_on(D, q, n_vector, ga),
                       b |-> Multivector_on(D, q, n_vector, gb)]]
         /\ proc = [q \in 0 .. (nproc - 1) |-> IdleProc]
         /\ script = <<>>

InitCollective ==
  /\ IdlePrec /\ IdleBlock /\ InitHeap /\ checked = {} /\ IdleExternal
  /\ InitWorld(FALSE)

NextCollective ==
  \/ DotBegin
  \/ NormBegin
  \/ AllreduceCompletes
  \/ DotEnd
  \/ NormEnd
  \/ OutputBegin
  \/ OutputGather
  \/ AllgathervCompletes
  \/ OutputEnd

\* dot, norm and output on the processes of one communicator
SpecCollective == InitCollective /\ [][NextCollective]_vars

InitRedistribute ==
  /\ IdlePrec /\ IdleBlock /\ InitHeap /\ checked = {} /\ IdleExternal
  /\ InitWorld(TRUE)

NextRedistribute ==
  \/ RedistributeBegin
  \/ ExchangeCompletes

\* redistribute on the processes of one communicator
SpecRedistribute == InitRedistribute /\ [][NextRedistribute]_vars

InitMumps ==
  /\ IdlePrec /\ IdleBlock /\ InitMV /\ IdleMesh
  /\ solver = MumpsSolver
  /\ mumps = NoInstance
  /\ \E dist \in BOOLEAN :
        matrices = [m \in MatrixNames |->
                      IF m = "J"
                      THEN Assembled_matrix(TriDiag(MumpsOrder), MumpsOrder, TRUE)
                      ELSE Assembled_matrix(DiagPlusOnes(MumpsOrder),
                                            MumpsOrder, dist)]
  /\ factorised = NotFactorised
  /\ ms_misuse = "none"
  /\ ms_ret = Void("construct")

NextMumps ==
  \/ MumpsEnableDeleteMatrixData
  \/ MumpsDisableDeleteMatrixData
  \/ MumpsEnableResolve
  \/ MumpsDisableResolve
  \/ MumpsFactorise
  \/ MumpsSolve
  \/ MumpsResolve
  \/ MumpsCleanUpMemory
  \/ MumpsDestroy
  \/ NewMumpsSetup
  \/ NewMumpsPreconditionerSolve
  \/ NewMumpsCleanUpMemory

\* The MumpsSolver and the NewMumpsPreconditioner built on it
SpecMumps == InitMumps /\ [][NextMumps]_vars

InitMesh ==
  /\ IdlePrec /\ IdleBlock /\ InitMV /\ IdleSolver
  /\ \E n_x \in ElementCounts, n_y \in ElementCounts, n_z \in ElementCounts :
        /\ mesh = SimpleCubicMesh(n_x, n_y, n_z)
        /\ mesh_ret = [op |-> "construct", args |-> <<n_x, n_y, n_z>>]

NextMesh == MeshConstruct \/ MeshNx \/ MeshNy \/ MeshNz

\* The SimpleCubicMesh and its accessors
SpecMesh == InitMesh /\ [][NextMesh]_vars

NextBorrow ==
  \/ MVBuild
  \/ MVConstructFromColumns
  \/ MVWrite
  \/ MVBuildFrom
  \/ MVAssign
  \/ MVClear

\* Views of another multivector's storage, and what the view does next
SpecBorrow == InitMultiVector /\ [][NextBorrow]_vars

====
